---- MODULE Spec2Model ----
(***************************************************************************)
(* EcoPrompt Coach: the shared calculator module (src/shared/calculator.js) *)
(* as a state machine.  The state is the module's three globals; the        *)
(* operations are loadData and the calculation entry points.  Numbers are   *)
(* exact rationals (JavaScript doubles without the rounding).  The content  *)
(* script, the background worker and the popup's storage follow, each with  *)
(* its own part of the state.                                               *)
(***************************************************************************)
EXTENDS Integers, Sequences, FiniteSets, TLC

VARIABLES MODEL_DATA, INFRASTRUCTURE, CONVERSIONS, loads, ret, prev, page, worker, popup

vars == <<MODEL_DATA, INFRASTRUCTURE, CONVERSIONS, loads, ret, prev, page, worker, popup>>

\* MODEL_DATA, INFRASTRUCTURE, CONVERSIONS: the module's globals
\* loads: what the last loadData returned, and whether one has returned true yet
\* ret:   the last call of an exported function: [op, args, val]
\* prev:  an earlier calculateImpact call made since the last loadData, kept to
\*        compare ret with, and how far back it lies
\* page:   the content script in one page: its globals, the element typed in, the
\*         tooltips attached to the document and the timers set
\* worker: the background worker: the badge text and the timers set
\* popup:  chrome.storage.local as the popup uses it, and the popup's calls in flight
globals == <<MODEL_DATA, INFRASTRUCTURE, CONVERSIONS>>

calculator == <<MODEL_DATA, INFRASTRUCTURE, CONVERSIONS, loads, ret, prev>>

shell == <<page, worker, popup>>

(***************************************************************************)
(* JavaScript values that are not numbers or objects.  A member an object   *)
(* lacks is a field the record lacks.                                      *)
(***************************************************************************)
Null == [js |-> "null"]
Undefined == [js |-> "undefined"]
NaN == [js |-> "NaN"]

(***************************************************************************)
(* Exact numbers n / (d * 10^e): d > 0 has no factor 2 or 5, n and d share *)
(* no factor, and n is no multiple of 10 (0 is 0 / 1 with e = 0).  Every    *)
(* decimal of the data files is such a number with d = 1.                   *)
(***************************************************************************)
Abs(x) == IF x < 0 THEN -x ELSE x

\* const v = x, then F(v): x is evaluated once, before F uses it
With(x, F(_)) == CHOOSE r \in {F(v) : v \in {x}} : TRUE

\* A value in TLC's normal form from the moment it is made: a value that the steps
\* of several workers share is then only read by them
Value(x) == CHOOSE r \in {x} : r = r

RECURSIVE GCD(_, _)
GCD(a, b) == IF b = 0 THEN a ELSE GCD(b, a % b)

LCM(a, b) == (a \div GCD(a, b)) * b

RECURSIVE Pow10(_)
Pow10(k) == IF k <= 0 THEN 1 ELSE 10 * Pow10(k - 1)

\* n / (d * 10^e) for n # 0 and n, d without a common factor, in the form above
RECURSIVE Canon(_, _, _)
Canon(n, d, e) ==
  IF n % 10 = 0 THEN Canon(n \div 10, d, e - 1)
  ELSE IF d % 2 = 0 THEN Canon(n * 5, d \div 2, e + 1)
  ELSE IF d % 5 = 0 THEN Canon(n * 2, d \div 5, e + 1)
  ELSE [n |-> n, d |-> d, e |-> e]

Zero == [n |-> 0, d |-> 1, e |-> 0]
One == [n |-> 1, d |-> 1, e |-> 0]

\* n / (d * 10^e) for any n and d > 0
Reduced(n, d, e) ==
  IF n = 0 THEN Zero
  ELSE With(GCD(Abs(n), d), LAMBDA g : Canon(n \div g, d \div g, e))

R(n, d) == Reduced(n, d, 0)

RInt(k) == Reduced(k, 1, 0)

\* The numerator of a over the denominator a.d * 10^e, for e >= a.e
Scaled(a, e) == a.n * Pow10(e - a.e)

RAdd(a, b) ==
  With([e |-> IF a.e >= b.e THEN a.e ELSE b.e, l |-> LCM(a.d, b.d)],
       LAMBDA c : Reduced(Scaled(a, c.e) * (c.l \div a.d) + Scaled(b, c.e) * (c.l \div b.d),
                          c.l, c.e))

RNeg(a) == [n |-> -a.n, d |-> a.d, e |-> a.e]

RSub(a, b) == RAdd(a, RNeg(b))

RMul(a, b) ==
  IF a.n = 0 \/ b.n = 0 THEN Zero
  ELSE With([g1 |-> GCD(Abs(a.n), b.d), g2 |-> GCD(Abs(b.n), a.d)],
            LAMBDA g : Canon((a.n \div g.g1) * (b.n \div g.g2),
                             (a.d \div g.g2) * (b.d \div g.g1), a.e + b.e))

\* 1 / b for b # 0
Reciprocal(b) ==
  IF b.n > 0 THEN Canon(b.d, b.n, -b.e) ELSE Canon(-b.d, -b.n, -b.e)

\* a / b for b # 0 (the callers test for 0 where JavaScript would give NaN or Infinity)
RDiv(a, b) == RMul(a, Reciprocal(b))

\* n1/d1 <= n2/d2 by comparing continued fractions: no product, so no overflow
RECURSIVE FracLe(_, _, _, _)
FracLe(n1, d1, n2, d2) ==
  LET q1 == n1 \div d1
      q2 == n2 \div d2
      r1 == n1 % d1
      r2 == n2 % d2
  IN  IF q1 # q2 THEN q1 < q2
      ELSE IF r1 = 0 THEN TRUE
      ELSE IF r2 = 0 THEN FALSE
      ELSE FracLe(d2, r2, d1, r1)

\* n * 10^k is within the integers
Fits(n, k) == k <= 9 /\ Abs(n) <= 2147483647 \div Pow10(k)

\* The two are brought to one power of 10 in the numerators, or in the denominators
RLe(a, b) ==
  IF (a.e >= b.e /\ Fits(b.n, a.e - b.e)) \/ (b.e >= a.e /\ Fits(a.n, b.e - a.e))
  THEN FracLe(a.n * Pow10(b.e - a.e), a.d, b.n * Pow10(a.e - b.e), b.d)
  ELSE FracLe(a.n, a.d * Pow10(a.e - b.e), b.n, b.d * Pow10(b.e - a.e))

RLt(a, b) == ~RLe(b, a)
RMax(a, b) == IF RLe(a, b) THEN b ELSE a
RMin(a, b) == IF RLe(a, b) THEN a ELSE b

\* Math.floor and Math.round (round half up) of a rational
RFloor(a) == IF a.e >= 0 THEN a.n \div (a.d * Pow10(a.e)) ELSE Scaled(a, 0) \div a.d
RRound(a) == RFloor(RAdd(a, R(1, 2)))

(***************************************************************************)
(* JavaScript objects with string keys: the [key, value] entries in         *)
(* insertion order, keys distinct.                                         *)
(***************************************************************************)
EmptyObj == [entries |-> <<>>]

ObjLen(obj) == Len(obj.entries)

ObjKeys(obj) == [i \in 1..ObjLen(obj) |-> obj.entries[i].key]

ObjHas(obj, k) == \E i \in 1..ObjLen(obj) : obj.entries[i].key = k

ObjGet(obj, k) == obj.entries[CHOOSE i \in 1..ObjLen(obj) : obj.entries[i].key = k].value

\* obj[k] = v: an existing key keeps its place
ObjPut(obj, k, v) ==
  IF ObjHas(obj, k)
  THEN [entries |-> [i \in 1..ObjLen(obj) |->
                       IF obj.entries[i].key = k THEN [key |-> k, value |-> v]
                       ELSE obj.entries[i]]]
  ELSE [entries |-> Append(obj.entries, [key |-> k, value |-> v])]

\* Names every plain object inherits from Object.prototype
ObjectPrototypeKeys == {"constructor", "toString"}

(***************************************************************************)
(* Strings that the code takes apart are sequences of tokens: words and    *)
(* the single characters " " and "_".  "Microsoft Azure" is                *)
(* <<"Microsoft", " ", "Azure">>.                                          *)
(***************************************************************************)
LowerWord(w) ==
  CASE w = "Microsoft" -> "microsoft"
    [] w = "Azure" -> "azure"
    [] w = "Google" -> "google"
    [] w = "Cloud" -> "cloud"
    [] w = "DeepSeek" -> "deepseek"
    [] OTHER -> w

\* String.prototype.toLowerCase
ToLowerCase(s) == [i \in 1..Len(s) |-> LowerWord(s[i])]

\* String.prototype.replace(from, to) with a string pattern: the first occurrence only
ReplaceFirst(s, from, to) ==
  IF \E i \in 1..Len(s) : s[i] = from
  THEN LET p == CHOOSE i \in 1..Len(s) : s[i] = from /\ \A j \in 1..(i - 1) : s[j] # from
       IN  [i \in 1..Len(s) |-> IF i = p THEN to ELSE s[i]]
  ELSE s

\* hostKey: model.host.toLowerCase().replace(' ', '_')
HostKeyOf(host) == ReplaceFirst(ToLowerCase(host), " ", "_")

(***************************************************************************)
(* The reference data files: entries of data/model_benchmarks.json and     *)
(* data/infrastructure.json as loadData reads them.  Energies are in Wh.   *)
(***************************************************************************)
Point(mean, std, lat, tps) ==
  [energy_wh_mean |-> mean, energy_wh_std |-> std, latency_p50 |-> lat, tps_p50 |-> tps]

RawModel(id, name, provider, host, size, perf) ==
  [model_id |-> id, name |-> name, provider |-> provider, host |-> host,
   size_class |-> size, gpu_count |-> 8, critical_power_kw |-> 10,
   performance |-> perf]

\* energy rises with the token count
RawA ==
  RawModel("gpt-4o", "GPT-4o", "OpenAI", <<"Microsoft", " ", "Azure">>, "Large",
           [short |-> Point(R(1, 2), R(1, 4), 1, 150),
            medium |-> Point(R(1, 1), R(1, 2), 1, 120),
            long |-> Point(R(2, 1), R(1, 2), 2, 100)])

\* a measured medium point below the short one, and a short std above its mean
RawB ==
  RawModel("gemini-2.0-flash", "Gemini 2.0 Flash", "Google", <<"Google", " ", "Cloud">>,
           "Medium",
           [short |-> Point(R(1, 1), R(2, 1), 1, 200),
            medium |-> Point(R(1, 2), R(1, 4), 1, 180),
            long |-> Point(R(3, 1), R(1, 1), 2, 160)])

RawC ==
  RawModel("deepseek-r1", "DeepSeek-R1", "DeepSeek", <<"DeepSeek">>, "Large",
           [short |-> Point(R(4, 1), R(1, 1), 3, 30),
            medium |-> Point(R(4, 1), R(1, 1), 5, 25),
            long |-> Point(R(8, 1), R(2, 1), 9, 20)])

\* an entry without its "host" member
RawNoHost ==
  [model_id |-> "llama-3.2-1b", name |-> "LLaMA 3.2 1B", provider |-> "Meta",
   size_class |-> "Nano", gpu_count |-> 1, critical_power_kw |-> 1,
   performance |-> [short |-> Point(R(1, 4), R(0, 1), 1, 300),
                    medium |-> Point(R(1, 2), R(0, 1), 1, 300),
                    long |-> Point(R(1, 1), R(0, 1), 1, 300)]]

\* an entry without its "performance" member
RawNoPerf ==
  [model_id |-> "o3-mini", name |-> "o3-mini", provider |-> "OpenAI",
   host |-> <<"Microsoft", " ", "Azure">>, size_class |-> "Small",
   gpu_count |-> 8, critical_power_kw |-> 10]

RawProvider(name, pue, on, off, cif) ==
  [name |-> name, pue |-> pue, wue_onsite_l_per_kwh |-> on,
   wue_offsite_l_per_kwh |-> off, cif_kgco2e_per_kwh |-> cif]

ProvAzure ==
  [key |-> <<"microsoft", "_", "azure">>,
   value |-> RawProvider("Microsoft Azure", R(5, 4), R(1, 2), R(3, 1), R(2, 5))]

ProvGoogle ==
  [key |-> <<"google", "_", "cloud">>,
   value |-> RawProvider("Google Cloud", R(1, 1), R(0, 1), R(2, 1), R(1, 2))]

ProvDeepSeek ==
  [key |-> <<"deepseek">>,
   value |-> RawProvider("DeepSeek", R(2, 1), R(1, 1), R(6, 1), R(3, 5))]

\* a provider whose value is JSON null
ProvNull == [key |-> <<"aws">>, value |-> Null]

\* model_benchmarks.json as parsed; the last one has no "models" member
ModelsDocs ==
  { [models |-> <<RawA, RawB>>], [models |-> <<RawA, RawC>>],
    [models |-> <<RawC, RawB, RawA>>], [models |-> <<RawA, RawNoHost, RawB>>],
    [models |-> <<RawB, RawNoPerf>>], [models |-> <<RawC>>], [models |-> <<>>],
    [version |-> "1.0"] }

\* infrastructure.json as parsed; the last one has no "providers" member
ProvidersDocs ==
  { [providers |-> <<ProvAzure, ProvGoogle, ProvDeepSeek>>],
    [providers |-> <<ProvAzure, ProvGoogle>>],
    [providers |-> <<ProvDeepSeek, ProvNull, ProvAzure>>], [version |-> "1.0"] }

\* conversion_factors.json as parsed: kept as it is, never read by the calculator
ConversionsDocs == { [version |-> "1.0"] }

\* What the three fetches and the three json() calls give: they throw, or three documents
Responses ==
  { [ok |-> FALSE] } \cup
  [ok : {TRUE}, modelsData : ModelsDocs, infraData : ProvidersDocs,
   conversionsData : ConversionsDocs]

(***************************************************************************)
(* loadData: the transformation of the documents into the globals.         *)
(***************************************************************************)
\* The object literal built for one model; reading a member of undefined throws
ModelThrows(model) == "host" \notin DOMAIN model \/ "performance" \notin DOMAIN model

CategoryOf(p) == [energy |-> p.energy_wh_mean, energyStd |-> p.energy_wh_std,
                  latency |-> p.latency_p50, tps |-> p.tps_p50]

ModelEntry(model) ==
  [name |-> model.name, provider |-> model.provider, host |-> model.host,
   hostKey |-> HostKeyOf(model.host), sizeClass |-> model.size_class,
   gpuCount |-> model.gpu_count, criticalPowerKw |-> model.critical_power_kw,
   short |-> CategoryOf(model.performance.short),
   medium |-> CategoryOf(model.performance.medium),
   long |-> CategoryOf(model.performance.long)]

\* modelsData.models.forEach(...) from entry i on, into acc; stops where an entry throws
RECURSIVE TransformModels(_, _, _)
TransformModels(models, i, acc) ==
  IF i > Len(models) THEN [obj |-> acc, threw |-> FALSE]
  ELSE IF ModelThrows(models[i]) THEN [obj |-> acc, threw |-> TRUE]
  ELSE TransformModels(models, i + 1, ObjPut(acc, models[i].model_id, ModelEntry(models[i])))

InfraEntry(value) ==
  [name |-> value.name, pue |-> value.pue, wueOnsite |-> value.wue_onsite_l_per_kwh,
   wueOffsite |-> value.wue_offsite_l_per_kwh, cif |-> value.cif_kgco2e_per_kwh]

\* for (const [key, value] of Object.entries(infraData.providers)) from entry i on
RECURSIVE TransformInfra(_, _, _)
TransformInfra(providers, i, acc) ==
  IF i > Len(providers) THEN [obj |-> acc, threw |-> FALSE]
  ELSE IF providers[i].value = Null THEN [obj |-> acc, threw |-> TRUE]
  ELSE TransformInfra(providers, i + 1,
                      ObjPut(acc, providers[i].key, InfraEntry(providers[i].value)))

\* The globals and the return value of loadData once its awaits have settled with resp.
\* up to the first await nothing is written, so the call is one step at that point.
loadData(resp, md, infra, conv) ==
  IF ~resp.ok THEN [MODEL_DATA |-> md, INFRASTRUCTURE |-> infra, CONVERSIONS |-> conv,
                    returns |-> FALSE]
  ELSE
    LET m == IF "models" \notin DOMAIN resp.modelsData
             THEN [obj |-> EmptyObj, threw |-> TRUE]
             ELSE TransformModels(resp.modelsData.models, 1, EmptyObj)
        f == IF "providers" \notin DOMAIN resp.infraData
             THEN [obj |-> EmptyObj, threw |-> TRUE]
             ELSE TransformInfra(resp.infraData.providers, 1, EmptyObj)
    IN  IF m.threw
        THEN [MODEL_DATA |-> m.obj, INFRASTRUCTURE |-> infra, CONVERSIONS |-> conv,
              returns |-> FALSE]
        ELSE IF f.threw
        THEN [MODEL_DATA |-> m.obj, INFRASTRUCTURE |-> f.obj, CONVERSIONS |-> conv,
              returns |-> FALSE]
        ELSE [MODEL_DATA |-> m.obj, INFRASTRUCTURE |-> f.obj,
              CONVERSIONS |-> resp.conversionsData, returns |-> TRUE]

isDataLoaded(md, infra) == md # Null /\ infra # Null

getAvailableModels(md) ==
  IF md = Null THEN <<>>
  ELSE [i \in 1..ObjLen(md) |->
          [id |-> md.entries[i].key, name |-> md.entries[i].value.name,
           provider |-> md.entries[i].value.provider,
           sizeClass |-> md.entries[i].value.sizeClass]]

(***************************************************************************)
(* Query category and energy interpolation.                                *)
(***************************************************************************)
getQueryCategory(inputTokens, outputTokens) ==
  LET totalTokens == inputTokens + outputTokens
  IN  IF totalTokens <= 500 THEN "short"
      ELSE IF totalTokens <= 2500 THEN "medium"
      ELSE "long"

\* Changed: the medium anchor taken from getQueryCategory's boundary
CategoriesMediumAt2500(model) ==
  [short |-> [tokens |-> 400, energy |-> model.short.energy, std |-> model.short.energyStd],
   medium |-> [tokens |-> 2500, energy |-> model.medium.energy, std |-> model.medium.energyStd],
   long |-> [tokens |-> 11500, energy |-> model.long.energy, std |-> model.long.energyStd]]

\* Category boundaries (from paper)
Categories(model) ==
  [short |-> [tokens |-> 400, energy |-> model.short.energy, std |-> model.short.energyStd],
   medium |-> [tokens |-> 2000, energy |-> model.medium.energy, std |-> model.medium.energyStd],
   long |-> [tokens |-> 11500, energy |-> model.long.energy, std |-> model.long.energyStd]]

\* Changed: the category's value as it is, not scaled by the token count
ExtrapolatedFlat(a, ratio) == a

\* a * ratio
Extrapolated(a, ratio) == RMul(a, ratio)

\* Changed: the two ends taken the wrong way round
InterpolatedSwapped(a, b, ratio) == RAdd(b, RMul(ratio, RSub(a, b)))

\* a + ratio * (b - a)
Interpolated(a, b, ratio) == RAdd(a, RMul(ratio, RSub(b, a)))

\* The branch of interpolateEnergy that a total token count takes
RegionOf(model, totalTokens) ==
  LET categories == Categories(model)
  IN  IF totalTokens <= categories.short.tokens THEN "belowShort"
      ELSE IF totalTokens <= categories.medium.tokens THEN "shortToMedium"
      ELSE IF totalTokens <= categories.long.tokens THEN "mediumToLong"
      ELSE "aboveLong"

\* energy and energyStd as the branch `region` computes them
RegionValue(model, region, totalTokens) ==
  LET categories == Categories(model)
  IN  CASE region = "belowShort" ->
             LET ratio == R(totalTokens, categories.short.tokens)
             IN  [energy |-> Extrapolated(categories.short.energy, ratio),
                  energyStd |-> Extrapolated(categories.short.std, ratio)]
        [] region = "shortToMedium" ->
             LET ratio == R(totalTokens - categories.short.tokens,
                            categories.medium.tokens - categories.short.tokens)
             IN  [energy |-> Interpolated(categories.short.energy,
                                          categories.medium.energy, ratio),
                  energyStd |-> Interpolated(categories.short.std,
                                             categories.medium.std, ratio)]
        [] region = "mediumToLong" ->
             LET ratio == R(totalTokens - categories.medium.tokens,
                            categories.long.tokens - categories.medium.tokens)
             IN  [energy |-> Interpolated(categories.medium.energy,
                                          categories.long.energy, ratio),
                  energyStd |-> Interpolated(categories.medium.std,
                                             categories.long.std, ratio)]
        [] region = "aboveLong" ->
             LET ratio == R(totalTokens, categories.long.tokens)
             IN  [energy |-> Extrapolated(categories.long.energy, ratio),
                  energyStd |-> Extrapolated(categories.long.std, ratio)]

interpolateEnergy(model, inputTokens, outputTokens) ==
  LET totalTokens == inputTokens + outputTokens
      e == RegionValue(model, RegionOf(model, totalTokens), totalTokens)
  IN  [energy |-> e.energy,
       energyStd |-> e.energyStd,
       confidenceInterval |-> [min |-> RMax(Zero, RSub(e.energy, e.energyStd)),
                               max |-> RAdd(e.energy, e.energyStd)]]

(***************************************************************************)
(* Impact calculation.                                                     *)
(***************************************************************************)
\* Changed: an identifier the table lacks falls back to the table's first model
ModelLookupWithDefault(modelId) ==
  IF ObjHas(MODEL_DATA, modelId) THEN ObjGet(MODEL_DATA, modelId)
  ELSE IF ObjLen(MODEL_DATA) > 0 THEN MODEL_DATA.entries[1].value
  ELSE Undefined

\* MODEL_DATA[modelId]: an own entry, a member inherited from Object.prototype, or undefined
ModelLookup(modelId) ==
  IF ObjHas(MODEL_DATA, modelId) THEN ObjGet(MODEL_DATA, modelId)
  ELSE IF modelId \in ObjectPrototypeKeys THEN [inherited |-> modelId]
  ELSE Undefined

\* INFRASTRUCTURE[model.hostKey]; a model object without hostKey gives the key "undefined"
InfraLookup(model) ==
  IF "hostKey" \notin DOMAIN model THEN Undefined
  ELSE IF ObjHas(INFRASTRUCTURE, model.hostKey) THEN ObjGet(INFRASTRUCTURE, model.hostKey)
  ELSE Undefined

\* Changed: the multiplier taken as a surcharge on top of the energy
ApplyMultiplierAsSurcharge(energy, energyMultiplier) ==
  RMul(energy, RAdd(One, energyMultiplier))

\* energy * energyMultiplier
ApplyMultiplier(energy, energyMultiplier) == RMul(energy, energyMultiplier)

\* Changed: the multiplier applied to the mean alone, the interval left as interpolated
ScaledIntervalUnscaled(interval, energyMultiplier) ==
  [minWh |-> RMax(Zero, interval.min), maxWh |-> interval.max]

\* The confidence interval of the estimate, from that of the interpolation
ScaledInterval(interval, energyMultiplier) ==
  [minWh |-> RMax(Zero, ApplyMultiplier(interval.min, energyMultiplier)),
   maxWh |-> ApplyMultiplier(interval.max, energyMultiplier)]

\* Changed: the off-site term divided by PUE like the on-site term
WaterOffsiteOverPue(energyKwh, infrastructure) ==
  RMul(RDiv(energyKwh, infrastructure.pue), infrastructure.wueOffsite)

\* (energyKwh / pue) * wueOnsite, in litres
WaterOnsite(energyKwh, infrastructure) ==
  RMul(RDiv(energyKwh, infrastructure.pue), infrastructure.wueOnsite)

\* energyKwh * wueOffsite, in litres
WaterOffsite(energyKwh, infrastructure) == RMul(energyKwh, infrastructure.wueOffsite)

\* Changed: the energy in Wh taken where kWh is meant
CarbonKgPerWattHour(energyKwh, infrastructure) ==
  RMul(RMul(energyKwh, RInt(1000)), infrastructure.cif)

\* Changed: the facility's energy (energyKwh * pue) taken for the carbon
CarbonKgOfFacility(energyKwh, infrastructure) ==
  RMul(RMul(energyKwh, infrastructure.pue), infrastructure.cif)

\* energyKwh * cif
CarbonKg(energyKwh, infrastructure) == RMul(energyKwh, infrastructure.cif)

\* The estimate built once the model and its infrastructure are found
ImpactOf(modelId, model, infrastructure, inputTokens, outputTokens, energyMultiplier) ==
  With(interpolateEnergy(model, inputTokens, outputTokens), LAMBDA energyData :
  With(ApplyMultiplier(energyData.energy, energyMultiplier), LAMBDA energyWh :
  With(RDiv(energyWh, RInt(1000)), LAMBDA energyKwh :
  With(WaterOnsite(energyKwh, infrastructure), LAMBDA waterOnsite :
  With(WaterOffsite(energyKwh, infrastructure), LAMBDA waterOffsite :
  With(RAdd(waterOnsite, waterOffsite), LAMBDA waterL :
  With(CarbonKg(energyKwh, infrastructure), LAMBDA carbonKg :
    [model |-> [id |-> modelId, name |-> model.name, provider |-> model.provider,
                host |-> model.host, sizeClass |-> model.sizeClass],
     tokens |-> [input |-> inputTokens, output |-> outputTokens,
                 total |-> inputTokens + outputTokens],
     category |-> getQueryCategory(inputTokens, outputTokens),
     energy |-> [wh |-> energyWh, kwh |-> energyKwh,
                 confidenceInterval |->
                   ScaledInterval(energyData.confidenceInterval, energyMultiplier)],
     water |-> [ml |-> RMul(waterL, RInt(1000)), l |-> waterL,
                breakdown |-> [onsiteMl |-> RMul(waterOnsite, RInt(1000)),
                               offsiteMl |-> RMul(waterOffsite, RInt(1000))]],
     carbon |-> [gCO2e |-> RMul(carbonKg, RInt(1000)), kgCO2e |-> carbonKg],
     multipliers |-> [energy |-> energyMultiplier, pue |-> infrastructure.pue,
                      wueOnsite |-> infrastructure.wueOnsite,
                      wueOffsite |-> infrastructure.wueOffsite,
                      cif |-> infrastructure.cif]])))))))

calculateImpact(modelId, inputTokens, outputTokens, energyMultiplier) ==
  IF MODEL_DATA = Null \/ INFRASTRUCTURE = Null THEN Null
  ELSE With(ModelLookup(modelId), LAMBDA model :
         IF model = Undefined THEN Null
         ELSE With(InfraLookup(model), LAMBDA infrastructure :
                IF infrastructure = Undefined THEN Null
                ELSE ImpactOf(modelId, model, infrastructure, inputTokens, outputTokens,
                              energyMultiplier)))

\* reduce((sum, x) => sum + x, 0) over the numbers xs from index k on
RECURSIVE SumFrom(_, _)
SumFrom(xs, k) == IF k > Len(xs) THEN Zero ELSE RAdd(xs[k], SumFrom(xs, k + 1))

RECURSIVE MinFrom(_, _)
MinFrom(xs, k) == IF k = Len(xs) THEN xs[k] ELSE RMin(xs[k], MinFrom(xs, k + 1))

RECURSIVE MaxFrom(_, _)
MaxFrom(xs, k) == IF k = Len(xs) THEN xs[k] ELSE RMax(xs[k], MaxFrom(xs, k + 1))

\* Changed: the loop starts one key late
RECURSIVE ImpactsFromNextKey(_, _, _, _, _)
ImpactsFromNextKey(keys, k, inputTokens, outputTokens, energyMultiplier) ==
  IF k + 1 > Len(keys) THEN <<>>
  ELSE With(calculateImpact(keys[k + 1], inputTokens, outputTokens, energyMultiplier),
            LAMBDA impact : IF impact = Null THEN <<>> ELSE <<impact>>)
       \o ImpactsFromNextKey(keys, k + 1, inputTokens, outputTokens, energyMultiplier)

\* The estimates of the models from key k on, those that are null left out
RECURSIVE ImpactsFrom(_, _, _, _, _)
ImpactsFrom(keys, k, inputTokens, outputTokens, energyMultiplier) ==
  IF k > Len(keys) THEN <<>>
  ELSE With(calculateImpact(keys[k], inputTokens, outputTokens, energyMultiplier),
            LAMBDA impact : IF impact = Null THEN <<>> ELSE <<impact>>)
       \o ImpactsFrom(keys, k + 1, inputTokens, outputTokens, energyMultiplier)

calculateAverageImpact(inputTokens, outputTokens, energyMultiplier) ==
  IF MODEL_DATA = Null THEN Null
  ELSE
    With(ImpactsFrom(ObjKeys(MODEL_DATA), 1, inputTokens, outputTokens, energyMultiplier),
         LAMBDA impacts :
    IF Len(impacts) = 0 THEN Null
    ELSE
      With([j \in 1..Len(impacts) |-> impacts[j].energy.wh], LAMBDA energies :
      With(RDiv(SumFrom(energies, 1), RInt(Len(impacts))), LAMBDA avgEnergy :
      With(RDiv(SumFrom([j \in 1..Len(impacts) |-> impacts[j].water.ml], 1),
                RInt(Len(impacts))), LAMBDA avgWater :
      With(RDiv(SumFrom([j \in 1..Len(impacts) |-> impacts[j].carbon.gCO2e], 1),
                RInt(Len(impacts))), LAMBDA avgCarbon :
        [isAverage |-> TRUE,
         modelCount |-> Len(impacts),
         tokens |-> [input |-> inputTokens, output |-> outputTokens,
                     total |-> inputTokens + outputTokens],
         energy |-> [wh |-> avgEnergy, kwh |-> RDiv(avgEnergy, RInt(1000)),
                     range |-> [minWh |-> MinFrom(energies, 1),
                                maxWh |-> MaxFrom(energies, 1)]],
         water |-> [ml |-> avgWater, l |-> RDiv(avgWater, RInt(1000))],
         carbon |-> [gCO2e |-> avgCarbon, kgCO2e |-> RDiv(avgCarbon, RInt(1000))],
         multiplier |-> energyMultiplier])))))

(***************************************************************************)
(* Relatable comparisons.  A phrase is the number printed in it and the     *)
(* text around the number.                                                 *)
(***************************************************************************)
Phrase(value, text) == [value |-> value, text |-> text]

\* Number.prototype.toFixed(digits) for digits 1 and 2, as the number it prints
ToFixed(x, digits) ==
  LET scale == IF digits = 1 THEN 10 ELSE 100
  IN  R(RRound(RMul(x, RInt(scale))), scale)

formatEnergyComparison(wh) ==
  IF RLt(wh, R(1, 2))
  THEN LET minutes == RRound(RMul(wh, RInt(60)))
       IN  Phrase(RInt(minutes),
                  IF minutes # 1 THEN "minutes of LED lightbulb" ELSE "minute of LED lightbulb")
  ELSE IF RLt(wh, RInt(10))
  THEN Phrase(ToFixed(RMul(RDiv(wh, RInt(10)), RInt(100)), 1), "% of smartphone charge")
  ELSE IF RLt(wh, RInt(50))
  THEN LET minutes == RRound(RMul(RDiv(wh, RInt(50)), RInt(60)))
       IN  Phrase(RInt(minutes),
                  IF minutes # 1 THEN "minutes of laptop usage" ELSE "minute of laptop usage")
  ELSE LET minutes == RRound(RMul(RDiv(wh, RInt(130)), RInt(60)))
       IN  Phrase(RInt(minutes),
                  IF minutes # 1 THEN "minutes of 65in TV" ELSE "minute of 65in TV")

formatWaterComparison(ml) ==
  IF RLt(ml, RInt(5))
  THEN LET drops == RRound(RMul(ml, RInt(20)))
       IN  Phrase(RInt(drops), IF drops # 1 THEN "drops of water" ELSE "drop of water")
  ELSE IF RLt(ml, RInt(100))
  THEN Phrase(ToFixed(RMul(RDiv(ml, RInt(250)), RInt(100)), 1), "% of a coffee cup")
  ELSE IF RLt(ml, RInt(500))
  THEN Phrase(ToFixed(RDiv(ml, RInt(250)), 2), "coffee cups")
  ELSE Phrase(ToFixed(RDiv(ml, RInt(500)), 2), "water bottles (500mL)")

formatCarbonComparison(gCO2e) ==
  IF RLt(gCO2e, RInt(20))
  THEN LET meters == RRound(RMul(RDiv(gCO2e, RInt(200)), RInt(1000)))
       IN  Phrase(RInt(meters), IF meters # 1 THEN "Driving meters" ELSE "Driving meter")
  ELSE IF RLt(gCO2e, RInt(200))
  THEN Phrase(RInt(RRound(RMul(RDiv(gCO2e, RInt(200)), RInt(1000)))), "Driving meters")
  ELSE Phrase(ToFixed(RDiv(gCO2e, RInt(200)), 2), "Driving kilometers")

\* formatWaterComparison of popup.js
PopupFormatWaterComparison(ml) ==
  IF RLt(ml, RInt(50))
  THEN Phrase(RInt(RRound(ml)), "drops of water")
  ELSE IF RLt(ml, RInt(250))
  THEN Phrase(ToFixed(RMul(RDiv(ml, RInt(250)), RInt(100)), 1), "% of a coffee cup")
  ELSE Phrase(ToFixed(RDiv(ml, RInt(250)), 2), "coffee cups")

getComparisons(impact) ==
  [energy |-> formatEnergyComparison(impact.energy.wh),
   water |-> formatWaterComparison(impact.water.ml),
   carbon |-> formatCarbonComparison(impact.carbon.gCO2e)]

(***************************************************************************)
(* Eco score.  With minEnergy = 0.070 and maxEnergy = 33.634 the rounded    *)
(* score 100 - 100 * (ln e - ln min) / (ln max - ln min) is at least s      *)
(* exactly when e <= min * (max / min) ^ ((100.5 - s) / 100).               *)
(* EcoThresholds[s] is that energy for s = 1..100 in micro-Wh, rounded      *)
(* down, so the logarithm is modelled to within 1e-6 Wh.                    *)
(***************************************************************************)
EcoThresholds ==
  <<
     32611450, 30658670, 28822822, 27096905, 25474337, 23948928, 22514861, 21166667,
     19899202, 18707634, 17587417, 16534279, 15544203, 14613412, 13738358, 12915702,
     12142307, 11415223, 10731677, 10089062, 9484927, 8916968, 8383018, 7881041,
     7409122, 6965463, 6548369, 6156251, 5787614, 5441050, 5115239, 4808937,
     4520977, 4250260, 3995754, 3756487, 3531548, 3320078, 3121271, 2934369,
     2758658, 2593469, 2438171, 2292173, 2154917, 2025880, 1904570, 1790524,
     1683307, 1582510, 1487749, 1398662, 1314910, 1236173, 1162151, 1092561,
     1027138, 965633, 907810, 853451, 802346, 754301, 709133, 666670,
     626750, 589220, 553937, 520767, 489584, 460267, 432706, 406796,
     382437, 359536, 338007, 317767, 298739, 280851, 264033, 248223,
     233359, 219386, 206249, 193898, 182288, 171372, 161110, 151463,
     142393, 133867, 125851, 118315, 111230, 104570, 98308, 92421,
     86887, 81684, 76793, 72194
  >>

\* Changed: the score left as the share of the range used, not inverted
calculateEcoScoreNotInverted(energyWh) ==
  Cardinality({s \in 1..100 : ~RLe(RMax(energyWh, R(70, 1000)), [n |-> EcoThresholds[s], d |-> 1, e |-> 6])})

\* k micro-Wh, as it is compared
MicroWh(k) == [n |-> k, d |-> 1, e |-> 6]

calculateEcoScore(energyWh) ==
  LET minEnergy == R(70, 1000)
      e == RMax(energyWh, minEnergy)
      \* Math.round(score), which falls with e
      rounded == Cardinality({s \in 1..100 : RLe(e, MicroWh(EcoThresholds[s]))})
  IN  IF rounded < 0 THEN 0 ELSE IF rounded > 100 THEN 100 ELSE rounded

getScoreLabel(score) ==
  IF score >= 80 THEN "Excellent"
  ELSE IF score >= 60 THEN "Good"
  ELSE IF score >= 40 THEN "Fair"
  ELSE IF score >= 20 THEN "Poor"
  ELSE "Very Poor"

(***************************************************************************)
(* Model comparison.                                                       *)
(***************************************************************************)
\* Every operating-point energy of the model table md
OperatingEnergies(md) ==
  UNION {{md.entries[i].value.short.energy, md.entries[i].value.medium.energy,
          md.entries[i].value.long.energy} : i \in 1..ObjLen(md)}

\* { ...impact, ecoScore, comparisons }
ResultOf(impact) ==
  [k \in DOMAIN impact \cup {"ecoScore", "comparisons"} |->
     IF k = "ecoScore" THEN calculateEcoScore(impact.energy.wh)
     ELSE IF k = "comparisons" THEN getComparisons(impact)
     ELSE impact[k]]

\* The results pushed for the identifiers from index k on
RECURSIVE ResultsFrom(_, _, _, _)
ResultsFrom(modelIds, k, inputTokens, outputTokens) ==
  IF k > Len(modelIds) THEN <<>>
  ELSE With(calculateImpact(modelIds[k], inputTokens, outputTokens, One),
            LAMBDA impact : IF impact = Null THEN <<>> ELSE <<ResultOf(impact)>>)
       \o ResultsFrom(modelIds, k + 1, inputTokens, outputTokens)

\* Changed: no comparison, the entry pushed last comes first
InsertSortedInFront(xs, x) == <<x>> \o xs

\* x put into the sorted list xs behind every entry that does not use more energy
InsertSorted(xs, x) ==
  LET after == {i \in 1..Len(xs) : RLe(xs[i].energy.wh, x.energy.wh)}
      p == Cardinality(after)
  IN  SubSeq(xs, 1, p) \o <<x>> \o SubSeq(xs, p + 1, Len(xs))

\* results.sort((a, b) => a.energy.wh - b.energy.wh): Array.prototype.sort is stable
RECURSIVE SortByEnergy(_)
SortByEnergy(xs) ==
  IF Len(xs) = 0 THEN <<>>
  ELSE InsertSorted(SortByEnergy(SubSeq(xs, 1, Len(xs) - 1)), xs[Len(xs)])

compareModels(modelIds, inputTokens, outputTokens) ==
  With(SortByEnergy(ResultsFrom(modelIds, 1, inputTokens, outputTokens)), LAMBDA results :
  With(IF Len(results) > 0 THEN results[1] ELSE Undefined, LAMBDA best :
  With(IF Len(results) > 0 THEN results[Len(results)] ELSE Undefined, LAMBDA worst :
    [results |-> results,
     recommendation |-> IF best # Undefined THEN [id |-> best.model.id] ELSE Null,
     best |-> best,
     worst |-> worst,
     potentialSavings |->
       IF best # Undefined /\ worst # Undefined
       THEN [energyWh |-> RSub(worst.energy.wh, best.energy.wh),
             waterMl |-> RSub(worst.water.ml, best.water.ml),
             carbonG |-> RSub(worst.carbon.gCO2e, best.carbon.gCO2e),
             \* a worst energy of 0 makes the quotient 0 / 0
             percentage |->
               IF worst.energy.wh = Zero THEN NaN
               ELSE RInt(RRound(RMul(RDiv(RSub(worst.energy.wh, best.energy.wh),
                                          worst.energy.wh),
                                     RInt(100))))]
       ELSE Null])))

(***************************************************************************)
(* The arguments the calls are made with.                                  *)
(***************************************************************************)
\* Longest list of identifiers handed to compareModels
MaxCompare == 2

\* Three identifiers of the data files, one of no file, one that Object.prototype has
ModelIds == {"gpt-4o", "gemini-2.0-flash", "deepseek-r1", "mistral-large", "constructor"}

CompareIds == {"gpt-4o", "gemini-2.0-flash", "deepseek-r1", "mistral-large"}

\* Lists of distinct identifiers, at most MaxCompare long
CompareLists ==
  UNION {{xs \in [1..n -> CompareIds] : \A i, j \in 1..n : i # j => xs[i] # xs[j]} :
         n \in 0..MaxCompare}

\* <<inputTokens, outputTokens>>: the paper's short query and one in the long category
FewTokens == {<<100, 300>>, <<1000, 1501>>}

\* around every boundary of interpolateEnergy and getQueryCategory
SomeTokens ==
  {<<0, 0>>, <<100, 100>>, <<100, 300>>, <<200, 300>>, <<1000, 1000>>, <<1000, 1501>>,
   <<10000, 1500>>, <<11500, 11500>>}

ManyTokens ==
  SomeTokens \cup
  {<<1, 0>>, <<0, 1>>, <<0, 400>>, <<99, 300>>, <<101, 300>>, <<500, 0>>, <<300, 900>>,
   <<999, 1000>>, <<1000, 1001>>, <<1000, 1500>>, <<2000, 4750>>, <<5000, 5000>>,
   <<10000, 1499>>, <<10001, 1500>>, <<11501, 0>>, <<20000, 0>>, <<0, 11500>>,
   <<1999, 0>>}

\* energyMultiplier values of TASK_TYPES (0.6, 1.0, 1.2, 2.0) with their doubles among them
Multipliers == {R(3, 5), One, R(6, 5), R(2, 1)}

FewMultipliers == {One, R(2, 1)}

\* GPT-4o as PLAN.md gives it (0.42 / 1.21 / 1.79 Wh): for direct calls of interpolateEnergy
RawRef ==
  RawModel("gpt-4o-paper", "GPT-4o", "OpenAI", <<"Microsoft", " ", "Azure">>, "Large",
           [short |-> Point(R(421, 1000), R(13, 100), 1, 150),
            medium |-> Point(R(121, 100), R(1, 4), 1, 120),
            long |-> Point(R(1788, 1000), R(36, 100), 2, 100)])

DirectModels == {ModelEntry(RawA), ModelEntry(RawB), ModelEntry(RawC), ModelEntry(RawRef)}

\* The operating-point energies of the models of the data files
TableEnergies ==
  UNION {{ModelEntry(m).short.energy, ModelEntry(m).medium.energy,
          ModelEntry(m).long.energy} : m \in {RawA, RawB, RawC}}

\* Energies in Wh from 0 to 40, closer together where they are small, the two anchors
\* of calculateEcoScore and the energies next to them, and those of the data files
ScoreEnergies ==
  {R(4 * k * k, 1000) : k \in 0..100} \cup
  {R(k, 1000) : k \in {69, 70, 71, 72, 73, 32611, 32612, 33634, 33635}} \cup
  TableEnergies

\* Microsoft Azure as PLAN.md gives it: PUE 1.12, WUE 0.30 and 3.142 L/kWh, CIF 0.3528
ProvAzureRef ==
  [key |-> <<"microsoft", "_", "azure">>,
   value |-> RawProvider("Microsoft Azure", R(112, 100), R(30, 100), R(3142, 1000),
                         R(3528, 10000))]

ReferenceResponse ==
  [ok |-> TRUE, modelsData |-> [models |-> <<RawRef>>],
   infraData |-> [providers |-> <<ProvAzureRef>>], conversionsData |-> [version |-> "1.0"]]

\* Every split of 400 tokens in steps of 4, and the medium and long operating points
ReferenceTokens ==
  {<<4 * i, 400 - 4 * i>> : i \in 0..100} \cup {<<1000, 1000>>, <<10000, 1500>>}

SomeEnergies == {R(7, 100), R(3, 1), R(33634, 1000)}

\* water from 0 to 6 mL by tenths, and one volume of each larger phrase
WaterVolumes == {R(k, 10) : k \in 0..60} \cup {RInt(60), RInt(300), RInt(700)}

\* Both files whole, and both whole but for the provider of one model
WholeResponses ==
  [ok : {TRUE}, modelsData : {[models |-> <<RawC, RawB, RawA>>]},
   infraData : {[providers |-> <<ProvAzure, ProvGoogle, ProvDeepSeek>>],
                [providers |-> <<ProvAzure, ProvGoogle>>]},
   conversionsData : ConversionsDocs]

(***************************************************************************)
(* Task types: TASK_TYPES and detectTaskType.                              *)
(***************************************************************************)
UpperCaseLetters == "ABCDEFGHIJKLMNOPQRSTUVWXYZ"

LowerCaseLetters == "abcdefghijklmnopqrstuvwxyz"

\* one character of String.prototype.toLowerCase
LowerChar(c) ==
  IF \E i \in 1..Len(UpperCaseLetters) : SubSeq(UpperCaseLetters, i, i) = c
    THEN With(CHOOSE i \in 1..Len(UpperCaseLetters) : SubSeq(UpperCaseLetters, i, i) = c,
              LAMBDA i : SubSeq(LowerCaseLetters, i, i))
    ELSE c

\* text.toLowerCase()
RECURSIVE toLowerCase(_)
toLowerCase(text) ==
  IF Len(text) = 0 THEN ""
  ELSE IF Len(text) = 1 THEN LowerChar(text)
  ELSE toLowerCase(SubSeq(text, 1, Len(text) \div 2))
         \o toLowerCase(SubSeq(text, Len(text) \div 2 + 1, Len(text)))

\* lowerText.includes(keyword)
includes(lowerText, keyword) ==
  \E i \in 1..(Len(lowerText) - Len(keyword) + 1) :
    SubSeq(lowerText, i, i + Len(keyword) - 1) = keyword

\* TASK_TYPES of calculator.js, in the order of declaration
TASK_TYPES ==
  <<
    [type |-> "IMAGE_GENERATION",
     keywords |-> <<"generate image", "create image", "draw", "illustrate",
                    "picture of", "photo of", "dall-e", "midjourney",
                    "stable diffusion", "image of", "artwork", "render",
                    "visualization", "painting", "sketch">>,
     inputMultiplier |-> R(12, 10), outputMultiplier |-> R(3, 10), energyMultiplier |-> R(30, 10),
     displayName |-> "Image Generation",
     description |-> "Uses 3x more energy than text tasks"],
    [type |-> "AGENTIC_TASK",
     keywords |-> <<"research", "analyze multiple", "compare sources",
                    "investigate", "browse", "search for", "find information",
                    "autonomous", "agent", "multi-step", "gather data",
                    "compile report">>,
     inputMultiplier |-> R(15, 10), outputMultiplier |-> R(25, 10), energyMultiplier |-> R(20, 10),
     displayName |-> "Agentic/Research Task",
     description |-> "Multiple model calls increase energy usage"],
    [type |-> "CODE_GENERATION",
     keywords |-> <<"write code", "create function", "implement", "debug",
                    "program", "script", "algorithm", "refactor", "fix bug",
                    "class", "method", "api", "endpoint", "database query">>,
     inputMultiplier |-> R(10, 10), outputMultiplier |-> R(15, 10), energyMultiplier |-> R(12, 10),
     displayName |-> "Code Generation",
     description |-> "Moderate energy with longer outputs"],
    [type |-> "CREATIVE_WRITING",
     keywords |-> <<"write story", "poem", "essay", "article", "creative",
                    "blog post", "narrative", "fiction", "novel", "character",
                    "plot", "screenplay">>,
     inputMultiplier |-> R(10, 10), outputMultiplier |-> R(20, 10), energyMultiplier |-> R(13, 10),
     displayName |-> "Creative Writing",
     description |-> "Longer outputs typical"],
    [type |-> "DATA_ANALYSIS",
     keywords |-> <<"analyze data", "analyze this", "examine", "interpret",
                    "statistics", "trends", "insights", "dashboard", "metrics",
                    "correlation", "report">>,
     inputMultiplier |-> R(13, 10), outputMultiplier |-> R(15, 10), energyMultiplier |-> R(14, 10),
     displayName |-> "Data Analysis",
     description |-> "Complex reasoning required"],
    [type |-> "TEXT_SUMMARIZATION",
     keywords |-> <<"summarize", "summary", "tldr", "brief overview", "key points",
                    "condense", "excerpt", "main ideas", "recap", "bullet points">>,
     inputMultiplier |-> R(12, 10), outputMultiplier |-> R(4, 10), energyMultiplier |-> R(7, 10),
     displayName |-> "Summarization",
     description |-> "Shorter outputs save energy"],
    [type |-> "TRANSLATION",
     keywords |-> <<"translate", "translation", "in spanish", "in french",
                    "in german", "to english", "language", "localize", "convert to">>,
     inputMultiplier |-> R(10, 10), outputMultiplier |-> R(10, 10), energyMultiplier |-> R(6, 10),
     displayName |-> "Translation",
     description |-> "Efficient task type"],
    [type |-> "QUESTION_ANSWERING",
     keywords |-> <<"what is", "how to", "why", "when", "where", "who", "explain",
                    "tell me about", "describe", "define", "what are", "how does">>,
     inputMultiplier |-> R(8, 10), outputMultiplier |-> R(10, 10), energyMultiplier |-> R(8, 10),
     displayName |-> "Q&A",
     description |-> "Simple and efficient"],
    [type |-> "GENERAL",
     keywords |-> <<>>,
     inputMultiplier |-> R(10, 10), outputMultiplier |-> R(10, 10), energyMultiplier |-> R(10, 10),
     displayName |-> "General",
     description |-> "Standard task"]
  >>

\* TASK_TYPES of content.js, in the order of declaration
ContentTaskTypes ==
  <<
    [type |-> "IMAGE_GENERATION",
     keywords |-> <<"generate image", "create image", "draw", "illustrate",
                    "picture of", "photo of", "dall-e", "midjourney",
                    "stable diffusion", "image of">>,
     energyMultiplier |-> R(30, 10),
     displayName |-> "Image Generation"],
    [type |-> "AGENTIC_TASK",
     keywords |-> <<"research", "analyze multiple", "compare sources",
                    "investigate", "browse", "search for", "find information",
                    "autonomous", "agent", "multi-step">>,
     energyMultiplier |-> R(20, 10),
     displayName |-> "Agentic/Research Task"],
    [type |-> "CODE_GENERATION",
     keywords |-> <<"write code", "create function", "implement", "debug",
                    "program", "script", "algorithm", "refactor", "fix bug">>,
     energyMultiplier |-> R(12, 10),
     displayName |-> "Code Generation"],
    [type |-> "CREATIVE_WRITING",
     keywords |-> <<"write story", "poem", "essay", "article", "creative",
                    "blog post", "narrative", "fiction", "novel">>,
     energyMultiplier |-> R(13, 10),
     displayName |-> "Creative Writing"],
    [type |-> "DATA_ANALYSIS",
     keywords |-> <<"analyze data", "analyze this", "examine", "interpret",
                    "statistics", "trends", "insights", "dashboard">>,
     energyMultiplier |-> R(14, 10),
     displayName |-> "Data Analysis"],
    [type |-> "TEXT_SUMMARIZATION",
     keywords |-> <<"summarize", "summary", "tldr", "brief overview", "key points",
                    "condense", "excerpt">>,
     energyMultiplier |-> R(7, 10),
     displayName |-> "Summarization"],
    [type |-> "TRANSLATION",
     keywords |-> <<"translate", "translation", "in spanish", "in french",
                    "in german", "to english", "language">>,
     energyMultiplier |-> R(6, 10),
     displayName |-> "Translation"],
    [type |-> "QUESTION_ANSWERING",
     keywords |-> <<"what is", "how to", "why", "when", "where", "who", "explain",
                    "tell me about", "describe", "define">>,
     energyMultiplier |-> R(8, 10),
     displayName |-> "Q&A"],
    [type |-> "GENERAL",
     keywords |-> <<>>,
     energyMultiplier |-> R(10, 10),
     displayName |-> "General"]
  >>

\* the inner loop of detectTaskType: two points for every keyword the text includes
ScoreFrom(lowerText, keywords, k) ==
  2 * Cardinality({j \in k..Len(keywords) : includes(lowerText, keywords[j])})

\* ties for the highest score go to the type declared last
ReplacesOnTie(score, maxScore) == score >= maxScore /\ score > 0

\* if (score > maxScore)
Replaces(score, maxScore) == score > maxScore

\* the outer loop of detectTaskType, from the i-th type on
RECURSIVE DetectFrom(_, _, _, _, _)
DetectFrom(lowerText, types, i, detectedType, maxScore) ==
  IF i > Len(types) THEN [detectedType |-> detectedType, maxScore |-> maxScore]
  ELSE IF Len(types[i].keywords) = 0
    THEN DetectFrom(lowerText, types, i + 1, detectedType, maxScore)
  ELSE With(ScoreFrom(lowerText, types[i].keywords, 1), LAMBDA score :
         IF Replaces(score, maxScore)
           THEN DetectFrom(lowerText, types, i + 1, types[i].type, score)
           ELSE DetectFrom(lowerText, types, i + 1, detectedType, maxScore))

\* TASK_TYPES[detectedType]
TaskConfig(types, detectedType) ==
  types[CHOOSE i \in 1..Len(types) : types[i].type = detectedType]

\* Math.min(100, maxScore * 15)
Confidence(maxScore) == IF maxScore * 15 < 100 THEN maxScore * 15 ELSE 100

\* detectTaskType of calculator.js
detectTaskType(text) ==
  With(DetectFrom(toLowerCase(text), TASK_TYPES, 1, "GENERAL", 0), LAMBDA found :
    With(TaskConfig(TASK_TYPES, found.detectedType), LAMBDA taskConfig :
      [type             |-> found.detectedType,
       displayName      |-> taskConfig.displayName,
       description      |-> taskConfig.description,
       confidence       |-> Confidence(found.maxScore),
       inputMultiplier  |-> taskConfig.inputMultiplier,
       outputMultiplier |-> taskConfig.outputMultiplier,
       energyMultiplier |-> taskConfig.energyMultiplier]))

\* detectTaskType of content.js (the later of the file's two declarations, the one
\* in effect): the same loops over its own table, and a result without a confidence
ContentDetectTaskType(text) ==
  With(DetectFrom(toLowerCase(text), ContentTaskTypes, 1, "GENERAL", 0), LAMBDA found :
    With(TaskConfig(ContentTaskTypes, found.detectedType), LAMBDA taskConfig :
      [type             |-> found.detectedType,
       displayName      |-> taskConfig.displayName,
       energyMultiplier |-> taskConfig.energyMultiplier]))

\* the pieces prompts are put together from
Fragments ==
  {"Draw ", "research agents ", "WHO, when, where? ", "explain why ", "description ",
   "Summarize ", "hello "}

MaxFragments == 2

RECURSIVE Joined(_)
Joined(fragments) ==
  IF Len(fragments) = 0 THEN "" ELSE Head(fragments) \o Joined(Tail(fragments))

\* the prompts of at most MaxFragments pieces
Prompts ==
  UNION {{Joined(fragments) : fragments \in [1..n -> Fragments]} : n \in 0..MaxFragments}

(***************************************************************************)
(* Prompt analysis: estimateTokens, detectPoliteWords and analyzePrompt.   *)
(***************************************************************************)
\* \s of the regular expressions, for the white space the texts here hold
IsSpace(c) == c \in {" ", "\t", "\n"}

\* String.prototype.trim
RECURSIVE Trim(_)
Trim(text) ==
  IF Len(text) = 0 THEN text
  ELSE IF IsSpace(SubSeq(text, 1, 1)) THEN Trim(SubSeq(text, 2, Len(text)))
  ELSE IF IsSpace(SubSeq(text, Len(text), Len(text))) THEN Trim(SubSeq(text, 1, Len(text) - 1))
  ELSE text

\* text.trim().split(/\s+/).length for a trimmed text that is not empty: the runs of
\* characters that are not white space
WordCount(trimmed) ==
  Cardinality({i \in 1..Len(trimmed) :
                 /\ ~IsSpace(SubSeq(trimmed, i, i))
                 /\ (i = 1 \/ IsSpace(SubSeq(trimmed, i - 1, i - 1)))})

\* the characters of /[.,!?;:()[\]{}"'-]/
SpecialCharacters == ".,!?;:()[]{}\"'-"

\* (text.match(/[.,!?;:()[\]{}"'-]/g) || []).length
SpecialCount(text) ==
  Cardinality({i \in 1..Len(text) :
                 \E k \in 1..Len(SpecialCharacters) :
                   SubSeq(text, i, i) = SubSeq(SpecialCharacters, k, k)})

\* the fence of a code block, three backquotes: the texts here are written with #
\* for the backquote
Fence == "###"

\* where the first fence at or after position i starts, 0 if there is none
FenceFrom(text, i) ==
  IF \E j \in i..(Len(text) - 2) : SubSeq(text, j, j + 2) = Fence
    THEN CHOOSE j \in i..(Len(text) - 2) :
           /\ SubSeq(text, j, j + 2) = Fence
           /\ \A k \in i..(j - 1) : SubSeq(text, k, k + 2) # Fence
    ELSE 0

\* the matches of a fence, anything (the least there can be) and a fence, counted
\* from position i on
RECURSIVE CodeBlocksFrom(_, _)
CodeBlocksFrom(text, i) ==
  With(FenceFrom(text, i), LAMBDA open :
    IF open = 0 THEN 0
    ELSE With(FenceFrom(text, open + 3), LAMBDA close :
           IF close = 0 THEN 0 ELSE 1 + CodeBlocksFrom(text, close + 3)))

\* Math.ceil(words / 0.75 + specialChars * 0.5 + codeBlocks * 10), in sixths
estimateTokens(text) ==
  IF Len(Trim(text)) = 0 THEN 0
  ELSE With(8 * WordCount(Trim(text)) + 3 * SpecialCount(text) + 60 * CodeBlocksFrom(text, 1),
            LAMBDA sixths : (sixths + 5) \div 6)

\* POLITE_PHRASES: of every pattern the phrases it matches (whatever the case of the
\* letters), the word it is reported as and the tokens it is credited with
POLITE_PHRASES ==
  << [pattern |-> <<"please">>, word |-> "please", tokens |-> 1],
     [pattern |-> <<"thank you">>, word |-> "thank you", tokens |-> 2],
     [pattern |-> <<"thanks">>, word |-> "thanks", tokens |-> 1],
     [pattern |-> <<"kindly">>, word |-> "kindly", tokens |-> 1],
     [pattern |-> <<"could you">>, word |-> "could you", tokens |-> 2],
     [pattern |-> <<"would you">>, word |-> "would you", tokens |-> 2],
     [pattern |-> <<"can you">>, word |-> "can you", tokens |-> 2],
     [pattern |-> <<"i would like">>, word |-> "I would like", tokens |-> 3],
     [pattern |-> <<"i'd like">>, word |-> "I'd like", tokens |-> 3],
     [pattern |-> <<"sorry">>, word |-> "sorry", tokens |-> 1],
     [pattern |-> <<"excuse me">>, word |-> "excuse me", tokens |-> 2],
     [pattern |-> <<"i appreciate">>, word |-> "I appreciate", tokens |-> 2],
     [pattern |-> <<"i beg">>, word |-> "I beg", tokens |-> 2],
     [pattern |-> <<"would you mind">>, word |-> "would you mind", tokens |-> 3],
     [pattern |-> <<"if you could", "if you would", "if you can">>,
      word |-> "if you could/would/can", tokens |-> 3],
     [pattern |-> <<"if it's not too much", "if it's possible",
                    "if it is not too much", "if it is possible">>,
      word |-> "if it's possible", tokens |-> 4] >>

\* \w of the regular expressions, in a lower-cased text
WordCharacters == "abcdefghijklmnopqrstuvwxyz0123456789_"

\* \b at both ends of the characters i..j of a text, themselves word characters
Bounded(lowerText, i, j) ==
  \A at \in {i - 1, j + 1} :
    \/ at < 1
    \/ at > Len(lowerText)
    \/ \A k \in 1..Len(WordCharacters) :
         SubSeq(lowerText, at, at) # SubSeq(WordCharacters, k, k)

\* the k-th phrase of a pattern stands at position i, between two \b
PhraseAt(lowerText, pattern, k, i) ==
  /\ i + Len(pattern[k]) - 1 <= Len(lowerText)
  /\ SubSeq(lowerText, i, i + Len(pattern[k]) - 1) = pattern[k]
  /\ Bounded(lowerText, i, i + Len(pattern[k]) - 1)

\* the length of the match of a pattern that starts at position i, 0 if none does:
\* of the phrases that stand there the first of the pattern
MatchAt(lowerText, pattern, i) ==
  IF \E k \in 1..Len(pattern) : PhraseAt(lowerText, pattern, k, i)
    THEN Len(pattern[CHOOSE k \in 1..Len(pattern) :
                       /\ PhraseAt(lowerText, pattern, k, i)
                       /\ \A h \in 1..(k - 1) : ~PhraseAt(lowerText, pattern, h, i)])
    ELSE 0

\* where the first match of a pattern at or after position i starts, 0 if there is
\* none
MatchFrom(lowerText, pattern, i) ==
  IF \E j \in i..Len(lowerText) : MatchAt(lowerText, pattern, j) > 0
    THEN CHOOSE j \in i..Len(lowerText) :
           /\ MatchAt(lowerText, pattern, j) > 0
           /\ \A h \in i..(j - 1) : MatchAt(lowerText, pattern, h) = 0
    ELSE 0

\* text.match(pattern) of a /g pattern, as the number of matches from position i on:
\* the search goes on behind each match
RECURSIVE MatchCountFrom(_, _, _)
MatchCountFrom(lowerText, pattern, i) ==
  With(MatchFrom(lowerText, pattern, i), LAMBDA at :
    IF at = 0 THEN 0
    ELSE 1 + MatchCountFrom(lowerText, pattern, at + MatchAt(lowerText, pattern, at)))

\* the loop of detectPoliteWords: of every phrase of POLITE_PHRASES that the text
\* holds, in the order of the list, what is pushed to found (the example,
\* matches[0], is not kept)
PoliteFound(lowerText) ==
  SelectSeq([k \in 1..Len(POLITE_PHRASES) |->
               With(MatchCountFrom(lowerText, POLITE_PHRASES[k].pattern, 1), LAMBDA count :
                 [phrase |-> POLITE_PHRASES[k].word, count |-> count,
                  tokensSaved |-> POLITE_PHRASES[k].tokens * count])],
            LAMBDA entry : entry.count > 0)

\* totalTokensSaved += phrase.tokens * matches.length, over the phrases found
RECURSIVE TokensSaved(_, _)
TokensSaved(found, k) ==
  IF k > Len(found) THEN 0 ELSE found[k].tokensSaved + TokensSaved(found, k + 1)

detectPoliteWords(text) ==
  With(PoliteFound(toLowerCase(text)), LAMBDA found :
    [found |-> found, totalTokensSaved |-> TokensSaved(found, 1)])

\* analyzePrompt of calculator.js (outputEstimate and tips are not kept)
analyzePrompt(text) ==
  IF Len(Trim(text)) = 0 THEN Null
  ELSE With(detectTaskType(text), LAMBDA taskType :
         With(detectPoliteWords(text), LAMBDA politeWords :
           [originalText     |-> text,
            tokens           |-> estimateTokens(text),
            taskType         |-> taskType.displayName,
            taskTypeRaw      |-> taskType.type,
            taskConfidence   |-> taskType.confidence,
            taskDescription  |-> taskType.description,
            energyMultiplier |-> taskType.energyMultiplier,
            politeWords      |-> politeWords,
            optimizedTokenEstimate |-> estimateTokens(text) - politeWords.totalTokensSaved]))

\* the pieces polite prompts are put together from
PoliteFragments ==
  {"Would you mind ", "would you ", "Please, ", "displeased ", "Thank you! ",
   "if it's possible ", "fix the bug. ", "###x = 1### "}

\* the prompts of at most MaxFragments of these pieces
PolitePrompts ==
  UNION {{Joined(fragments) : fragments \in [1..n -> PoliteFragments]} : n \in 0..MaxFragments}

(***************************************************************************)
(* The background worker (src/background.js).  Time is counted in seconds; *)
(* a timer that is due runs before more time passes.                       *)
(***************************************************************************)
\* setTimeout(..., 5000): the seconds the badge is to stay
BadgeSeconds == 5

\* the openPopup messages whose timers may be pending at once
MaxPending == 2

\* timers: of every pending setTimeout the seconds left, the oldest first
WorkerStarted ==
  [badge |-> "", timers |-> <<>>, storage |-> <<>>, response |-> Null]

(***************************************************************************)
(* The popup's prompt library and query history (src/popup.js).  Both live *)
(* in chrome.storage.local, which serves its get and set requests one at a *)
(* time in the order they were made; what follows an await runs when the   *)
(* get it waits for is served.                                             *)
(***************************************************************************)
\* if (history.length > 1000)
MaxHistory == 1000

\* the calls made of the popup
MaxCalls == 3

\* the milliseconds Date.now() goes through
MaxNow == 2

\* requests: the get and set requests chrome.storage.local has not served yet
\* saved, deleted, created: the prompts save has made, the ids delete was called
\* with, and how many history entries there have been: kept to state properties
PopupOpened(history, trackHistory) ==
  [library |-> <<>>, history |-> history, trackHistory |-> trackHistory,
   requests |-> <<>>, now |-> 0, calls |-> 0,
   saved |-> <<>>, deleted |-> {}, created |-> Len(history)]

(***************************************************************************)
(* The content script (src/content.js, the later of its two copies).  A    *)
(* timer that is set runs at some later moment, those of one delay in the  *)
(* order they were set.  A tooltip is known by the number of the           *)
(* showTooltip call that made it.                                          *)
(***************************************************************************)
\* the tooltips made in a page
MaxTooltips == 3

\* the paste timers pending at once
MaxPastes == 1

\* the text fields of the page
Elements == {"prompt", "search"}

\* texts of 62 and 57, of 19 and of 2 characters (trimmed)
LongText == "Could you please write a story about a dragon who cannot fly? "

LongerText == "Could you please write a story about a dragon who can fly"

MediumText == "Please fix the bug."

ShortText == " hi "

\* value:  of every element its text
\* typed:  of every element its text as of the last input event on it
\* typing: of every element the text its pending _ecopromptTimeout callback has
\*         captured, if one is pending
\* pasted: the elements of the pending paste timers, the oldest first
\* attached, hiding: the tooltips in document.body and those whose auto-hide
\*         timer is pending
PageLoaded ==
  [value |-> [e \in Elements |-> ""], typed |-> [e \in Elements |-> ""],
   typing |-> [e \in Elements |-> <<>>], pasted |-> <<>>,
   attached |-> {}, hiding |-> {}, tooltips |-> 0,
   currentTooltip |-> 0, lastAnalyzedElement |-> "none",
   currentAnalysis |-> Null, floatingBadge |-> FALSE, bannerShown |-> FALSE]

\* removeTooltip()
removeTooltip(pg) ==
  IF pg.currentTooltip # 0
    THEN [pg EXCEPT !.attached = @ \ {pg.currentTooltip}, !.currentTooltip = 0]
    ELSE pg

\* Changed: the tooltip shown before is left in the document
showTooltipKeeping(pg, element) ==
  [pg EXCEPT
     !.tooltips = @ + 1,
     !.attached = @ \cup {pg.tooltips + 1},
     !.hiding = @ \cup {pg.tooltips + 1},
     !.currentTooltip = pg.tooltips + 1,
     !.lastAnalyzedElement = element]

\* showTooltip(analysis, element)
showTooltip(pg, element) ==
  [removeTooltip(pg) EXCEPT
     !.tooltips = @ + 1,
     !.attached = @ \cup {pg.tooltips + 1},
     !.hiding = @ \cup {pg.tooltips + 1},
     !.currentTooltip = pg.tooltips + 1,
     !.lastAnalyzedElement = element]

\* what the two timer callbacks do with the analysis of a text: currentAnalysis,
\* showTooltip, createFloatingBadge, and showNotificationBanner if banner is true.
\* (analyzePrompt returns an analysis with a tip for every text that is not blank:
\* getOptimizationTips always adds the tip on models.)
Analysed(pg, element, text, banner) ==
  [showTooltip(pg, element) EXCEPT
     !.currentAnalysis = [text |-> text],
     !.floatingBadge = TRUE,
     !.bannerShown = @ \/ banner]


(***************************************************************************)
(* The state machine.                                                      *)
(***************************************************************************)
NoCall == [op |-> "none"]

\* the content script as loaded into a page, the worker and the popup as started
ShellInit ==
  /\ page = PageLoaded
  /\ worker = WorkerStarted
  /\ popup = PopupOpened(<<>>, FALSE)

\* the calculator module as loaded
Constructed ==
  /\ MODEL_DATA = Null
  /\ INFRASTRUCTURE = Null
  /\ CONVERSIONS = Null
  /\ loads = [last |-> "none", succeeded |-> FALSE]
  /\ ret = NoCall
  /\ prev = NoCall

Init ==
  /\ Constructed
  /\ ShellInit

\* One more call since the kept one: "kept" while ret is still the kept call,
\* "next" when ret is the call after it, "later" when calls lie between the two
Advance(p) ==
  IF p.op = "none" THEN p
  ELSE [p EXCEPT !.age = IF p.age = "kept" THEN "next" ELSE "later"]

Returns(op, args, val) ==
  /\ ret' = [op |-> op, args |-> args, val |-> val]
  /\ prev' = Advance(prev)
  /\ UNCHANGED <<globals, loads, shell>>

\* Bookkeeping, no step of the program: the calculateImpact call in ret is kept
Keep ==
  /\ ret.op = "calculateImpact"
  /\ prev' = [op |-> ret.op, args |-> ret.args, val |-> ret.val, age |-> "kept"]
  /\ prev' # prev
  /\ UNCHANGED <<globals, loads, ret, shell>>

LoadData(responses) ==
  \E resp \in responses :
    LET r == loadData(resp, MODEL_DATA, INFRASTRUCTURE, CONVERSIONS)
    IN  /\ MODEL_DATA' = r.MODEL_DATA
        /\ INFRASTRUCTURE' = r.INFRASTRUCTURE
        /\ CONVERSIONS' = r.CONVERSIONS
        /\ loads' = [last |-> IF r.returns THEN "true" ELSE "false",
                     succeeded |-> loads.succeeded \/ r.returns]
        /\ ret' = [op |-> "loadData", args |-> <<>>, val |-> r.returns]
        /\ prev' = NoCall
        /\ UNCHANGED shell

IsDataLoaded == Returns("isDataLoaded", <<>>, isDataLoaded(MODEL_DATA, INFRASTRUCTURE))

\* Changed: listing the models drops the infrastructure table
GetAvailableModelsDropping ==
  /\ ret' = [op |-> "getAvailableModels", args |-> <<>>, val |-> getAvailableModels(MODEL_DATA)]
  /\ prev' = Advance(prev)
  /\ INFRASTRUCTURE' = Null
  /\ UNCHANGED <<MODEL_DATA, CONVERSIONS, loads, shell>>

GetAvailableModels == Returns("getAvailableModels", <<>>, getAvailableModels(MODEL_DATA))

InterpolateEnergy(models, tokens) ==
  \E model \in models, t \in tokens :
    Returns("interpolateEnergy", <<model, t[1], t[2]>>, interpolateEnergy(model, t[1], t[2]))

CalculateImpact(ids, tokens, multipliers) ==
  \E id \in ids, t \in tokens, k \in multipliers :
    Returns("calculateImpact", <<id, t[1], t[2], k>>, calculateImpact(id, t[1], t[2], k))

CalculateAverageImpact(tokens, multipliers) ==
  \E t \in tokens, k \in multipliers :
    Returns("calculateAverageImpact", <<t[1], t[2], k>>,
            calculateAverageImpact(t[1], t[2], k))

\* Changed: the models compared are taken out of the table
CompareModelsConsuming(lists, tokens) ==
  \E modelIds \in lists, t \in tokens :
    /\ ret' = [op |-> "compareModels", args |-> <<modelIds, t[1], t[2]>>,
               val |-> compareModels(modelIds, t[1], t[2])]
    /\ prev' = Advance(prev)
    /\ MODEL_DATA' =
         IF MODEL_DATA = Null THEN Null
         ELSE [entries |-> SelectSeq(MODEL_DATA.entries,
                                     LAMBDA e : \A i \in 1..Len(modelIds) : modelIds[i] # e.key)]
    /\ UNCHANGED <<INFRASTRUCTURE, CONVERSIONS, loads, shell>>

CompareModels(lists, tokens) ==
  \E modelIds \in lists, t \in tokens :
    Returns("compareModels", <<modelIds, t[1], t[2]>>, compareModels(modelIds, t[1], t[2]))

CalculateEcoScore(energies) ==
  \E e \in energies : Returns("calculateEcoScore", <<e>>, Value(calculateEcoScore(e)))

FormatEnergyComparison(values) ==
  \E x \in values : Returns("formatEnergyComparison", <<x>>, Value(formatEnergyComparison(x)))

FormatWaterComparison(values) ==
  \E x \in values : Returns("formatWaterComparison", <<x>>, Value(formatWaterComparison(x)))

FormatCarbonComparison(values) ==
  \E x \in values : Returns("formatCarbonComparison", <<x>>, Value(formatCarbonComparison(x)))

PopupFormatWater(values) ==
  \E x \in values :
    Returns("popup.formatWaterComparison", <<x>>, Value(PopupFormatWaterComparison(x)))

DetectTaskType(texts) ==
  \E text \in texts : Returns("detectTaskType", <<text>>, Value(detectTaskType(text)))

ContentDetect(texts) ==
  \E text \in texts : Returns("content.detectTaskType", <<text>>, Value(ContentDetectTaskType(text)))

EstimateTokens(texts) ==
  \E text \in texts : Returns("estimateTokens", <<text>>, Value(estimateTokens(text)))

AnalyzePrompt(texts) ==
  \E text \in texts : Returns("analyzePrompt", <<text>>, Value(analyzePrompt(text)))

\* The calculator from its construction on
Next ==
  \/ LoadData(Responses)
  \/ IsDataLoaded
  \/ GetAvailableModels
  \/ CalculateImpact(ModelIds, FewTokens, FewMultipliers)
  \/ CalculateAverageImpact(FewTokens, FewMultipliers)
  \/ CompareModels(CompareLists, FewTokens)

Spec == Init /\ [][Next]_vars

\* Every calculation entry point between loads of whole files, one earlier call kept
NextCalls ==
  \/ LoadData(WholeResponses)
  \/ IsDataLoaded
  \/ GetAvailableModels
  \/ CalculateImpact(ModelIds, {<<100, 300>>}, FewMultipliers)
  \/ CalculateAverageImpact({<<100, 300>>}, FewMultipliers)
  \/ CompareModels(CompareLists, {<<100, 300>>})
  \/ CalculateEcoScore(SomeEnergies)
  \/ FormatEnergyComparison(SomeEnergies)
  \/ FormatWaterComparison(SomeEnergies)
  \/ FormatCarbonComparison(SomeEnergies)
  \/ Keep

SpecCalls == Init /\ [][NextCalls]_vars

\* interpolateEnergy alone: it reads none of the globals
NextInterpolate == InterpolateEnergy(DirectModels, ManyTokens)

SpecInterpolate == Init /\ [][NextInterpolate]_vars

\* calculateImpact on reference data that one loadData has loaded whole
InitLoaded ==
  /\ \E resp \in WholeResponses :
       LET r == loadData(resp, Null, Null, Null)
       IN  /\ MODEL_DATA = r.MODEL_DATA
           /\ INFRASTRUCTURE = r.INFRASTRUCTURE
           /\ CONVERSIONS = r.CONVERSIONS
  /\ loads = [last |-> "true", succeeded |-> TRUE]
  /\ ret = NoCall
  /\ prev = NoCall
  /\ ShellInit

NextImpact == CalculateImpact(ModelIds, SomeTokens, Multipliers)

SpecImpact == InitLoaded /\ [][NextImpact]_vars

\* calculateEcoScore with reference data loaded
NextEcoScore == CalculateEcoScore(ScoreEnergies)

SpecEcoScore == InitLoaded /\ [][NextEcoScore]_vars

NextDetect ==
  \/ DetectTaskType(Prompts)
  \/ ContentDetect(Prompts)

SpecDetect == Init /\ [][NextDetect]_vars

\* the analysis of prompts
NextAnalyze ==
  \/ EstimateTokens(PolitePrompts)
  \/ AnalyzePrompt(PolitePrompts)

SpecAnalyze == Init /\ [][NextAnalyze]_vars

\* the two formatWaterComparison, of the calculator and of the popup
NextFormat ==
  \/ FormatWaterComparison(WaterVolumes)
  \/ PopupFormatWater(WaterVolumes)

SpecFormat == Init /\ [][NextFormat]_vars

\* calculateImpact on the figures of the paper, loaded by one loadData
InitReference ==
  /\ LET r == loadData(ReferenceResponse, Null, Null, Null)
     IN  /\ MODEL_DATA = r.MODEL_DATA
         /\ INFRASTRUCTURE = r.INFRASTRUCTURE
         /\ CONVERSIONS = r.CONVERSIONS
  /\ loads = [last |-> "true", succeeded |-> TRUE]
  /\ ret = NoCall
  /\ prev = NoCall
  /\ ShellInit

NextReference == CalculateImpact({"gpt-4o-paper"}, ReferenceTokens, {One})

SpecReference == InitReference /\ [][NextReference]_vars

(***************************************************************************)
(* The handlers of the background worker.                                  *)
(***************************************************************************)
\* chrome.storage.local.set(items) on what is stored
StorageSet(storage, items) ==
  [key \in DOMAIN storage \cup DOMAIN items |->
     IF key \in DOMAIN items THEN items[key] ELSE storage[key]]

\* chrome.runtime.onInstalled
OnInstalled(reasons) ==
  \E reason \in reasons :
    /\ worker' =
         IF reason = "install"
           THEN [worker EXCEPT !.storage =
                   StorageSet(@, [defaultModel |-> "gpt-4o", trackingEnabled |-> TRUE,
                                  queriesAnalyzed |-> 0])]
           ELSE worker
    /\ worker' # worker
    /\ UNCHANGED <<calculator, page, popup>>

\* chrome.runtime.onMessage
OnMessage(requests) ==
  \E request \in requests :
    /\ \/ /\ request.action = "calculateImpact"
          /\ worker' = [worker EXCEPT !.response = [success |-> TRUE]]
       \/ /\ request.action = "getStats"
          /\ worker' = [worker EXCEPT !.response =
                          [queriesAnalyzed |->
                             IF "queriesAnalyzed" \in DOMAIN worker.storage
                               THEN worker.storage.queriesAnalyzed ELSE 0]]
       \/ /\ request.action = "openPopup"
          /\ Len(worker.timers) < MaxPending
          /\ worker' =
               [badge    |-> "!",
                timers   |-> Append(worker.timers, BadgeSeconds),
                storage  |-> IF request.analysis # Null
                               THEN StorageSet(worker.storage,
                                               [currentAnalysis |-> request.analysis])
                               ELSE worker.storage,
                response |-> [success |-> TRUE]]
    /\ UNCHANGED <<calculator, page, popup>>

\* the callback of the oldest timer, due: setBadgeText({ text: '' })
BadgeTimer ==
  /\ worker.timers # <<>>
  /\ Head(worker.timers) = 0
  /\ worker' = [worker EXCEPT !.badge = "", !.timers = Tail(@)]
  /\ UNCHANGED <<calculator, page, popup>>

\* a second passes while timers are pending and none is due
Second ==
  /\ worker.timers # <<>>
  /\ \A i \in 1..Len(worker.timers) : worker.timers[i] > 0
  /\ worker' = [worker EXCEPT !.timers = [i \in 1..Len(@) |-> @[i] - 1]]
  /\ UNCHANGED <<calculator, page, popup>>

\* the messages of the content script and of the popup
Requests ==
  {[action |-> "calculateImpact"], [action |-> "getStats"]}
    \cup {[action |-> "openPopup", analysis |-> a] : a \in {Null, [tokens |-> 4], [tokens |-> 19]}}

NextWorker ==
  \/ OnInstalled({"install", "update"})
  \/ OnMessage(Requests)
  \/ BadgeTimer
  \/ Second

SpecWorker == Init /\ [][NextWorker]_vars

(***************************************************************************)
(* The calls of the popup and the steps of chrome.storage.local.           *)
(***************************************************************************)
\* the popup once one more call of it has made a request
Asking(request) == [popup EXCEPT !.calls = @ + 1, !.requests = Append(@, request)]

\* promptLibrary.save(prompt) up to its await, for a text not saved before
Save(texts) ==
  \E text \in texts :
    /\ \A i \in 1..Len(popup.requests) :
         ~(/\ popup.requests[i].kind = "get"
           /\ popup.requests[i].then = "save"
           /\ popup.requests[i].text = text)
    /\ \A i \in 1..Len(popup.saved) : popup.saved[i].text # text
    /\ popup.calls < MaxCalls
    /\ popup' = Asking([kind |-> "get", then |-> "save", text |-> text])
    /\ UNCHANGED <<calculator, page, worker>>

\* promptLibrary.delete(id) up to its await, for the id of a prompt of the list
Delete ==
  \E i \in 1..Len(popup.library) :
    /\ popup.calls < MaxCalls
    /\ popup' = [Asking([kind |-> "get", then |-> "delete", id |-> popup.library[i].id])
                   EXCEPT !.deleted = @ \cup {popup.library[i].id}]
    /\ UNCHANGED <<calculator, page, worker>>

\* the end of the popup's calculateImpact: trackQuery up to its await, if
\* settings.trackHistory
PopupCalculateImpact ==
  /\ popup.calls < MaxCalls
  /\ popup' = IF popup.trackHistory THEN Asking([kind |-> "get", then |-> "track"])
               ELSE [popup EXCEPT !.calls = @ + 1]
  /\ UNCHANGED <<calculator, page, worker>>

\* Date.now() moves on
Millisecond ==
  /\ popup.now < MaxNow
  /\ popup' = [popup EXCEPT !.now = @ + 1]
  /\ UNCHANGED <<calculator, page, worker>>

\* the rest of save once getAll has resolved: the set request it makes
SaveSets(prompts, text, now) ==
  [kind |-> "set", key |-> "library", value |-> <<[id |-> now, text |-> text]>> \o prompts]

\* the rest of delete once getAll has resolved
DeleteSets(prompts, id) ==
  [kind |-> "set", key |-> "library", value |-> SelectSeq(prompts, LAMBDA p : p.id # id)]

\* the rest of trackQuery once getHistory has resolved
TrackSets(history, entry) ==
  [kind |-> "set", key |-> "history",
   value |-> IF Len(history) + 1 > MaxHistory THEN Tail(Append(history, entry))
             ELSE Append(history, entry)]

\* chrome.storage.local serves its oldest request: a set is stored, a get hands
\* what is stored to the call that waits for it, which runs up to its set
Serve ==
  /\ popup.requests # <<>>
  /\ LET request == Head(popup.requests)
         rest == Tail(popup.requests)
     IN  popup' =
           IF request.kind = "set"
             THEN IF request.key = "library"
                    THEN [popup EXCEPT !.requests = rest, !.library = request.value]
                    ELSE [popup EXCEPT !.requests = rest, !.history = request.value]
           ELSE IF request.then = "save"
             THEN [popup EXCEPT
                     !.requests = Append(rest, SaveSets(popup.library, request.text, popup.now)),
                     !.saved = Append(@, [id |-> popup.now, text |-> request.text])]
           ELSE IF request.then = "delete"
             THEN [popup EXCEPT
                     !.requests = Append(rest, DeleteSets(popup.library, request.id))]
           ELSE [popup EXCEPT
                   !.requests = Append(rest, TrackSets(popup.history, popup.created + 1)),
                   !.created = @ + 1]
  /\ UNCHANGED <<calculator, page, worker>>

\* the popup opened on a history of 0, 999 or 1000 entries, numbered in the order
\* they were made, with settings.trackHistory as the stored settings have it
InitPopup ==
  /\ Constructed
  /\ page = PageLoaded
  /\ worker = WorkerStarted
  /\ \E length \in {0, MaxHistory - 1, MaxHistory}, trackHistory \in BOOLEAN :
       popup = PopupOpened([i \in 1..length |-> i], trackHistory)

NextPopup ==
  \/ Save({"prompt A", "prompt B"})
  \/ Delete
  \/ PopupCalculateImpact
  \/ Millisecond
  \/ Serve

SpecPopup == InitPopup /\ [][NextPopup]_vars

(***************************************************************************)
(* The handlers of the content script.                                     *)
(***************************************************************************)
\* an input event: handleInput, the element holding the text typed
HandleInput(texts) ==
  \E element \in Elements, text \in texts :
    /\ page' = [page EXCEPT
                  !.value[element] = text,
                  !.typed[element] = text,
                  !.typing[element] = IF Len(Trim(text)) > 50 THEN <<text>> ELSE @]
    /\ page' # page
    /\ UNCHANGED <<calculator, worker, popup>>

\* the callback of an element's _ecopromptTimeout, 2 seconds after it was set
InputTimer ==
  \E element \in Elements :
    /\ page.typing[element] # <<>>
    /\ page.tooltips < MaxTooltips
    /\ page' = [Analysed(page, element, page.typing[element][1], ~page.bannerShown)
                  EXCEPT !.typing[element] = <<>>]
    /\ UNCHANGED <<calculator, worker, popup>>

\* a paste event: handlePaste, and the text pasted arriving in the element
HandlePaste(texts) ==
  \E element \in Elements, text \in texts :
    /\ Len(page.pasted) < MaxPastes
    /\ page' = [page EXCEPT !.pasted = Append(@, element), !.value[element] = text]
    /\ UNCHANGED <<calculator, worker, popup>>

\* the callback of the oldest paste timer, 100 ms after the paste
PasteTimer ==
  /\ page.pasted # <<>>
  /\ page.tooltips < MaxTooltips
  /\ LET element == Head(page.pasted)
         text == page.value[element]
     IN  page' =
           IF Len(Trim(text)) < 10 THEN [page EXCEPT !.pasted = Tail(@)]
           ELSE [Analysed(page, element, text,
                          ~page.bannerShown /\ Len(Trim(text)) > 50)
                   EXCEPT !.pasted = Tail(@)]
  /\ UNCHANGED <<calculator, worker, popup>>

\* Changed: the timer removes the tooltip shown, whichever it is
AutoHideAny(pg, tooltip) == [removeTooltip(pg) EXCEPT !.hiding = @ \ {tooltip}]

\* the callback of showTooltip's timer: if (currentTooltip === tooltip) removeTooltip()
AutoHide(pg, tooltip) ==
  [(IF pg.currentTooltip = tooltip THEN removeTooltip(pg) ELSE pg)
     EXCEPT !.hiding = @ \ {tooltip}]

\* the auto-hide timer of a tooltip runs, 20 seconds after showTooltip
HideTimer(tooltip) ==
  /\ tooltip \in page.hiding
  /\ page' = AutoHide(page, tooltip)
  /\ UNCHANGED <<calculator, worker, popup>>

\* the click listener of the document, for a click that is not in a tooltip:
\* on a text field or elsewhere on the page
ClickOutside ==
  \E target \in Elements \cup {"body"} :
    /\ page' = IF /\ page.currentTooltip # 0
                  /\ page.lastAnalyzedElement # "none"
                  /\ page.lastAnalyzedElement # target
                 THEN removeTooltip(page) ELSE page
    /\ page' # page
    /\ UNCHANGED <<calculator, worker, popup>>

\* a click on the close button of a tooltip in the document: its click listener,
\* then the listener of the document, which finds no tooltip shown
ClickClose ==
  \E tooltip \in page.attached :
    /\ page' = removeTooltip(page)
    /\ UNCHANGED <<calculator, worker, popup>>

NextPage ==
  \/ HandleInput({LongText, LongerText, MediumText})
  \/ InputTimer
  \/ HandlePaste({LongText, MediumText, ShortText})
  \/ PasteTimer
  \/ \E tooltip \in 1..MaxTooltips : HideTimer(tooltip)
  \/ ClickOutside
  \/ ClickClose

SpecPage == Init /\ [][NextPage]_vars

\* the tooltips of one long text, typed or pasted; every auto-hide timer set runs
\* in the end
NextTooltips ==
  \/ HandleInput({LongText})
  \/ InputTimer
  \/ HandlePaste({LongText})
  \/ PasteTimer
  \/ \E tooltip \in 1..MaxTooltips : HideTimer(tooltip)
  \/ ClickOutside
  \/ ClickClose

SpecTooltips ==
  /\ Init
  /\ [][NextTooltips]_vars
  /\ \A tooltip \in 1..MaxTooltips : WF_vars(HideTimer(tooltip))


(***************************************************************************)
(* Properties of interpolateEnergy (SpecInterpolate).                      *)
(***************************************************************************)
\* inputTokens + outputTokens of an interpolateEnergy or calculateImpact call
TotalOf(call) == call.args[2] + call.args[3]

NonNegativeMeans(model) ==
  /\ RLe(Zero, model.short.energy)
  /\ RLe(Zero, model.medium.energy)
  /\ RLe(Zero, model.long.energy)

RisingMeans(model) ==
  /\ RLe(Zero, model.short.energy)
  /\ RLe(model.short.energy, model.medium.energy)
  /\ RLe(model.medium.energy, model.long.energy)

\* The energy returned is not above that of any larger total token count
NoLargerTotalBelow ==
  \A t \in ManyTokens :
    t[1] + t[2] >= TotalOf(ret) =>
      RLe(ret.val.energy, interpolateEnergy(ret.args[1], t[1], t[2]).energy)

\* C1 as claimed: for every model with non-negative mean energies the interpolated
\* energy never falls when the total token count grows.
C1_MonotoneForNonNegativeMeans ==
  (ret.op = "interpolateEnergy" /\ NonNegativeMeans(ret.args[1])) => NoLargerTotalBelow

\* C1 amended: for every model whose mean energies satisfy 0 <= short <= medium <= long
\* the interpolated energy never falls when the total token count grows.
C1_MonotoneForRisingMeans ==
  (ret.op = "interpolateEnergy" /\ RisingMeans(ret.args[1])) => NoLargerTotalBelow

C1_Witness ==
  /\ ret.op = "interpolateEnergy"
  /\ RisingMeans(ret.args[1])
  /\ TotalOf(ret) = 1999
  /\ RLt(ret.val.energy, interpolateEnergy(ret.args[1], 10001, 1500).energy)

\* C2: at 400, 2000 and 11500 total tokens interpolateEnergy returns the short, medium
\* and long mean and std, and the two branches that meet there give the same value.
C2_AnchorsExactAndContinuous ==
  ret.op = "interpolateEnergy" =>
    LET model == ret.args[1]
        total == TotalOf(ret)
        Same(a, b, point) ==
          /\ ret.val.energy = point.energy
          /\ ret.val.energyStd = point.energyStd
          /\ RegionValue(model, a, total) = RegionValue(model, b, total)
    IN  /\ total = 400 => Same("belowShort", "shortToMedium", model.short)
        /\ total = 2000 => Same("shortToMedium", "mediumToLong", model.medium)
        /\ total = 11500 => Same("mediumToLong", "aboveLong", model.long)

C2_Witness ==
  /\ ret.op = "interpolateEnergy"
  /\ TotalOf(ret) = 2000
  /\ ret.val.energy = ret.args[1].medium.energy
  /\ ret.val.energy # ret.args[1].short.energy

\* C3: up to 400 total tokens energy and std are the short values times total / 400:
\* 0 at 0 tokens, half the short mean at 200 tokens (0.2105 Wh of 0.421 Wh).
C3_ProportionalBelowShort ==
  (ret.op = "interpolateEnergy" /\ TotalOf(ret) <= 400) =>
    LET model == ret.args[1]
        total == TotalOf(ret)
    IN  /\ RMul(ret.val.energy, RInt(400)) = RMul(model.short.energy, RInt(total))
        /\ RMul(ret.val.energyStd, RInt(400)) = RMul(model.short.energyStd, RInt(total))
        /\ total = 0 => ret.val.energy = Zero
        /\ total = 200 => RAdd(ret.val.energy, ret.val.energy) = model.short.energy
        /\ (total = 200 /\ model.short.energy = R(421, 1000)) =>
             ret.val.energy = R(2105, 10000)

C3_Witness ==
  /\ ret.op = "interpolateEnergy"
  /\ TotalOf(ret) = 200
  /\ ret.args[1].short.energy = R(421, 1000)
  /\ ret.val.energy = R(2105, 10000)

(***************************************************************************)
(* Failures of calculateImpact and of loadData (Spec).                     *)
(***************************************************************************)
\* C4: calculateImpact with an identifier that is no key of the loaded model table
\* returns the failure value null, never an estimate, whatever the other arguments.
C4_UnknownModelFails ==
  (ret.op = "calculateImpact" /\ MODEL_DATA # Null /\ ~ObjHas(MODEL_DATA, ret.args[1])) =>
    ret.val = Null

C4_Witness ==
  /\ ret.op = "calculateImpact"
  /\ loads.last = "true"
  /\ ObjLen(MODEL_DATA) > 0
  /\ ObjLen(INFRASTRUCTURE) > 0
  /\ ret.args[1] = "mistral-large"
  /\ ret.val = Null

\* The call in ret names a model of the table whose hostKey the infrastructure table lacks
InfrastructureMissing ==
  /\ ret.op = "calculateImpact"
  /\ MODEL_DATA # Null
  /\ INFRASTRUCTURE # Null
  /\ ObjHas(MODEL_DATA, ret.args[1])
  /\ ~ObjHas(INFRASTRUCTURE, ObjGet(MODEL_DATA, ret.args[1]).hostKey)

\* C5 as claimed: the outcome for a known model whose hosting key the infrastructure
\* table lacks differs from the outcome for an unknown identifier and from the outcome
\* for unloaded data (null).
C5_InfrastructureNotFoundDistinct ==
  InfrastructureMissing =>
    /\ ret.val # Null
    /\ \A id \in ModelIds :
         ModelLookup(id) = Undefined =>
           ret.val # calculateImpact(id, ret.args[2], ret.args[3], ret.args[4])

\* Nothing is served: no estimate for any input, no model listed
NothingServed ==
  /\ getAvailableModels(MODEL_DATA) = <<>>
  /\ \A t \in FewTokens, k \in FewMultipliers :
       /\ calculateAverageImpact(t[1], t[2], k) = Null
       /\ \A id \in ModelIds : calculateImpact(id, t[1], t[2], k) = Null

\* C6 as claimed: while the last loadData returned false, isDataLoaded() is false and
\* nothing is served, so no part of the reference data is.
C6_FailedLoadServesNothing ==
  loads.last = "false" => (~isDataLoaded(MODEL_DATA, INFRASTRUCTURE) /\ NothingServed)

\* C7 as claimed: until a loadData has returned true nothing is served, and compareModels
\* returns no results and a null recommendation.
C7_NothingBeforeFirstLoad ==
  ~loads.succeeded =>
    /\ NothingServed
    /\ \A modelIds \in CompareLists, t \in FewTokens :
         LET c == compareModels(modelIds, t[1], t[2])
         IN  c.results = <<>> /\ c.recommendation = Null

(***************************************************************************)
(* calculateAverageImpact (Spec).                                          *)
(***************************************************************************)
\* The call in ret is calculateAverageImpact after a loadData that returned true
AveragedLoaded == ret.op = "calculateAverageImpact" /\ loads.last = "true"

\* The model of entry i of the table has an infrastructure profile
HasProfile(i) == ObjHas(INFRASTRUCTURE, MODEL_DATA.entries[i].value.hostKey)

\* C14 as claimed: with reference data loaded calculateAverageImpact returns null if
\* the model table is empty and an estimate whenever the table holds a model.
C14_AverageForAnyModel ==
  AveragedLoaded => (ret.val = Null <=> ObjLen(MODEL_DATA) = 0)

\* C14 amended: with reference data loaded calculateAverageImpact returns null if the
\* model table is empty, and an estimate whenever the table holds a model and every
\* model of the table has an infrastructure profile.
C14_AverageForCalculableModels ==
  AveragedLoaded =>
    /\ ObjLen(MODEL_DATA) = 0 => ret.val = Null
    /\ (ObjLen(MODEL_DATA) > 0 /\ \A i \in 1..ObjLen(MODEL_DATA) : HasProfile(i)) =>
         ret.val # Null

\* an average over a table of one model that has its profile, under a multiplier of 2
C14_Witness ==
  /\ AveragedLoaded
  /\ ObjLen(MODEL_DATA) = 1
  /\ HasProfile(1)
  /\ ret.val # Null
  /\ ret.val.modelCount = 1
  /\ ret.args[3] = R(2, 1)

\* C15 as claimed: an average returned is over every model of the table: modelCount
\* is the number of models in the table, none is left out.
C15_AverageOverEveryModel ==
  (ret.op = "calculateAverageImpact" /\ ret.val # Null) =>
    ret.val.modelCount = ObjLen(MODEL_DATA)

(***************************************************************************)
(* compareModels (Spec).                                                   *)
(***************************************************************************)
\* The call in ret compares two models that both have an estimate, of differing energy
ComparedTwoDiffering ==
  /\ ret.op = "compareModels"
  /\ Len(ret.args[1]) = 2
  /\ LET a == calculateImpact(ret.args[1][1], ret.args[2], ret.args[3], One)
         b == calculateImpact(ret.args[1][2], ret.args[2], ret.args[3], One)
     IN  a # Null /\ b # Null /\ a.energy.wh # b.energy.wh

\* C16: for two known models of differing energy the results are in ascending order of
\* energy.wh, best is results[0], the model of lower energy, recommendation is its id,
\* and potentialSavings.percentage is a number from 0 to 100.
C16_LowerEnergyFirst ==
  ComparedTwoDiffering =>
    LET c == ret.val
    IN  /\ Len(c.results) = 2
        /\ {c.results[1].model.id, c.results[2].model.id} =
             {ret.args[1][1], ret.args[1][2]}
        /\ RLt(c.results[1].energy.wh, c.results[2].energy.wh)
        /\ c.best = c.results[1]
        /\ c.worst = c.results[2]
        /\ c.recommendation = [id |-> c.results[1].model.id]
        /\ c.potentialSavings.percentage # NaN
        /\ RLe(Zero, c.potentialSavings.percentage)
        /\ RLe(c.potentialSavings.percentage, RInt(100))

\* the model of lower energy was named second and comes first
C16_Witness ==
  /\ ComparedTwoDiffering
  /\ ret.val.recommendation = [id |-> ret.args[1][2]]
  /\ ret.val.results[1].model.id = ret.args[1][2]
  /\ RLt(Zero, ret.val.potentialSavings.percentage)

\* C17 as claimed: with reference data loaded compareModels returns one result entry
\* for each identifier of the list; none is dropped from results, best / worst and
\* potentialSavings.
C17_OneResultPerIdentifier ==
  (ret.op = "compareModels" /\ loads.last = "true") =>
    /\ Len(ret.val.results) = Len(ret.args[1])
    /\ \A i \in 1..Len(ret.args[1]) :
         \E j \in 1..Len(ret.val.results) : ret.val.results[j].model.id = ret.args[1][i]

(***************************************************************************)
(* The arithmetic of calculateImpact (SpecImpact).                         *)
(***************************************************************************)
\* The call in ret returned an estimate
Estimated == ret.op = "calculateImpact" /\ ret.val # Null

Twice(x) == RMul(RInt(2), x)

\* C8: doubling the multiplier doubles energy.wh, water.ml and carbon.gCO2e.
C8_LinearInMultiplier ==
  Estimated =>
    LET doubled == calculateImpact(ret.args[1], ret.args[2], ret.args[3], Twice(ret.args[4]))
    IN  /\ doubled.energy.wh = Twice(ret.val.energy.wh)
        /\ doubled.water.ml = Twice(ret.val.water.ml)
        /\ doubled.carbon.gCO2e = Twice(ret.val.carbon.gCO2e)

C8_Witness ==
  /\ Estimated
  /\ RLt(Zero, ret.val.energy.wh)
  /\ RLt(Zero, ret.val.water.ml)
  /\ ret.args[4] = R(3, 5)

\* C9: minWh = k * max(0, mean - std), maxWh = k * (mean + std) for the interpolated
\* mean and std, and 0 <= minWh <= energy.wh <= maxWh.
C9_IntervalScaledAndOrdered ==
  Estimated =>
    LET e == interpolateEnergy(ObjGet(MODEL_DATA, ret.args[1]), ret.args[2], ret.args[3])
        k == ret.args[4]
        interval == ret.val.energy.confidenceInterval
    IN  /\ interval.minWh = RMul(k, RMax(Zero, RSub(e.energy, e.energyStd)))
        /\ interval.maxWh = RMul(k, RAdd(e.energy, e.energyStd))
        /\ RLe(Zero, interval.minWh)
        /\ RLe(interval.minWh, ret.val.energy.wh)
        /\ RLe(ret.val.energy.wh, interval.maxWh)

\* an estimate whose lower bound is clamped to 0 under a multiplier other than 1
C9_Witness ==
  /\ Estimated
  /\ ret.args[4] = R(2, 1)
  /\ ret.val.energy.confidenceInterval.minWh = Zero
  /\ RLt(Zero, ret.val.energy.wh)
  /\ RLt(ret.val.energy.wh, ret.val.energy.confidenceInterval.maxWh)

\* The infrastructure profile of the model that the call in ret names
ProfileOf(call) == ObjGet(INFRASTRUCTURE, ObjGet(MODEL_DATA, call.args[1]).hostKey)

\* C11: water.l = (energy.kwh / pue) * wueOnsite + energy.kwh * wueOffsite with
\* energy.kwh = energy.wh / 1000, water.ml = 1000 * water.l = onsiteMl + offsiteMl;
\* only the on-site term is divided by PUE.
C11_WaterFormula ==
  Estimated =>
    LET p == ProfileOf(ret)
        kwh == ret.val.energy.kwh
        water == ret.val.water
    IN  /\ RMul(kwh, RInt(1000)) = ret.val.energy.wh
        /\ water.l = RAdd(RMul(RDiv(kwh, p.pue), p.wueOnsite), RMul(kwh, p.wueOffsite))
        /\ water.ml = RMul(RInt(1000), water.l)
        /\ water.ml = RAdd(water.breakdown.onsiteMl, water.breakdown.offsiteMl)
        /\ RMul(water.breakdown.onsiteMl, p.pue) = RMul(RMul(kwh, p.wueOnsite), RInt(1000))
        /\ water.breakdown.offsiteMl = RMul(RMul(kwh, p.wueOffsite), RInt(1000))

\* an estimate under a profile with PUE other than 1 and water used on and off site
C11_Witness ==
  /\ Estimated
  /\ ProfileOf(ret).pue # One
  /\ RLt(Zero, ret.val.water.breakdown.onsiteMl)
  /\ RLt(Zero, ret.val.water.breakdown.offsiteMl)
  /\ RLt(ret.val.water.breakdown.offsiteMl, ret.val.water.ml)

\* C12: carbon.kgCO2e = energy.kwh * cif of the model's infrastructure profile,
\* carbon.gCO2e = 1000 * carbon.kgCO2e, and the multipliers record holds the energy
\* multiplier of the call and the pue, wueOnsite, wueOffsite and cif of that profile.
C12_CarbonFormulaAndMultipliers ==
  Estimated =>
    LET p == ProfileOf(ret)
    IN  /\ ret.val.carbon.kgCO2e = RMul(ret.val.energy.kwh, p.cif)
        /\ ret.val.carbon.gCO2e = RMul(RInt(1000), ret.val.carbon.kgCO2e)
        /\ ret.val.multipliers =
             [energy |-> ret.args[4], pue |-> p.pue, wueOnsite |-> p.wueOnsite,
              wueOffsite |-> p.wueOffsite, cif |-> p.cif]

\* an estimate with carbon above 0, PUE other than 1 and a multiplier other than 1
C12_Witness ==
  /\ Estimated
  /\ RLt(Zero, ret.val.carbon.gCO2e)
  /\ ret.val.multipliers.pue # One
  /\ ret.val.multipliers.energy = R(6, 5)

(***************************************************************************)
(* The sample calculation of the paper (SpecReference).                    *)
(***************************************************************************)
\* |x - y| <= tolerance
Within(x, y, tolerance) == RLe(RSub(x, y), tolerance) /\ RLe(RSub(y, x), tolerance)

\* C13: for 400 total tokens of a model with short mean 0.421 Wh, multiplier 1, under
\* PUE 1.12, wueOnsite 0.30, wueOffsite 3.142, cif 0.3528 the energy is 0.421 Wh, the
\* water is within 0.1 mL of 1.5 mL and the carbon within 0.01 g of 0.15 gCO2e.
C13_SampleCalculation ==
  (Estimated /\ TotalOf(ret) = 400 /\ ret.args[4] = One) =>
    /\ ret.val.energy.wh = R(421, 1000)
    /\ Within(ret.val.water.ml, R(15, 10), R(1, 10))
    /\ Within(ret.val.carbon.gCO2e, R(15, 100), R(1, 100))

C13_Witness ==
  /\ Estimated
  /\ ret.args[2] = 100
  /\ ret.args[3] = 300
  /\ ret.val.multipliers.pue = R(112, 100)
  /\ ret.val.multipliers.cif = R(3528, 10000)
  /\ ret.val.energy.wh = R(421, 1000)
  /\ RLt(ret.val.water.ml, R(15, 10))
  /\ RLt(R(14, 10), ret.val.water.ml)

(***************************************************************************)
(* calculateEcoScore (SpecEcoScore).                                       *)
(***************************************************************************)
\* C18: for every energy >= 0 calculateEcoScore returns an integer from 0 to 100, and
\* no energy at least as large gets a higher score.
C18_ScoreBoundedAndFalling ==
  (ret.op = "calculateEcoScore" /\ RLe(Zero, ret.args[1])) =>
    /\ ret.val \in 0..100
    /\ \A e2 \in ScoreEnergies :
         RLe(ret.args[1], e2) => calculateEcoScore(e2) <= ret.val

\* a score strictly between the ends, above that of one energy and below another's
C18_Witness ==
  /\ ret.op = "calculateEcoScore"
  /\ ret.val \in 1..99
  /\ calculateEcoScore(R(70, 1000)) = 100
  /\ calculateEcoScore(R(33634, 1000)) = 0
  /\ \E e2 \in ScoreEnergies : RLt(ret.args[1], e2) /\ calculateEcoScore(e2) < ret.val

\* C19 as claimed: with a model table loaded the score is 100 at the lowest and 0 at
\* the highest operating-point energy of the models of the table.
C19_AnchorsFollowTable ==
  (ret.op = "calculateEcoScore" /\ loads.last = "true" /\ ObjLen(MODEL_DATA) > 0) =>
    LET energies == OperatingEnergies(MODEL_DATA)
    IN  /\ (\A e \in energies : RLe(ret.args[1], e)) /\ ret.args[1] \in energies =>
             ret.val = 100
        /\ (\A e \in energies : RLe(e, ret.args[1])) /\ ret.args[1] \in energies =>
             ret.val = 0

(***************************************************************************)
(* Task type detection (SpecDetect).                                       *)
(***************************************************************************)
\* the types of a table that have keywords, by position
Keyworded(types) == {i \in 1..Len(types) : Len(types[i].keywords) > 0}

\* how many keywords of the i-th type the lower-cased text includes
Matches(types, i, text) ==
  Cardinality({k \in 1..Len(types[i].keywords) :
                 includes(toLowerCase(text), types[i].keywords[k])})

\* the type is the first declared one among those with the most matching keywords,
\* and GENERAL if no keyword of any type matches
FirstOfTheBest(types, text, type) ==
  IF \A i \in Keyworded(types) : Matches(types, i, text) = 0
    THEN type = "GENERAL"
    ELSE \E i \in Keyworded(types) :
           /\ types[i].type = type
           /\ \A j \in Keyworded(types) : Matches(types, j, text) <= Matches(types, i, text)
           /\ \A j \in Keyworded(types) :
                j < i => Matches(types, j, text) < Matches(types, i, text)

\* C20: detectTaskType returns the type with the most matching keywords, the one
\* declared first in TASK_TYPES when several tie for the most, and GENERAL with
\* confidence 0 when no keyword of any type matches; the confidence it reports is
\* an integer from 0 to 100. content.js's copy picks the type the same way from its
\* own table (it reports no confidence).
C20_FirstTypeWithMostKeywords ==
  /\ ret.op = "detectTaskType" =>
       /\ FirstOfTheBest(TASK_TYPES, ret.args[1], ret.val.type)
       /\ ret.val.confidence \in 0..100
       /\ (\A i \in Keyworded(TASK_TYPES) : Matches(TASK_TYPES, i, ret.args[1]) = 0) =>
            ret.val.confidence = 0
  /\ ret.op = "content.detectTaskType" =>
       FirstOfTheBest(ContentTaskTypes, ret.args[1], ret.val.type)

\* a prompt whose first keyword is of a type declared later than the type of its
\* second keyword, one match each: the earlier declared type is returned
C20_Witness ==
  /\ ret.op = "detectTaskType"
  /\ ret.args[1] = "Summarize Draw "
  /\ Matches(TASK_TYPES, 1, ret.args[1]) = 1
  /\ Matches(TASK_TYPES, 6, ret.args[1]) = 1
  /\ ret.val.type = "IMAGE_GENERATION"
  /\ ret.val.confidence = 30

(***************************************************************************)
(* Prompt analysis (SpecAnalyze).                                          *)
(***************************************************************************)
\* C30 as claimed: for every prompt that is not empty analyzePrompt returns an
\* optimizedTokenEstimate from 0 to the estimated tokens of the prompt: the tokens
\* credited to polite phrases never exceed the tokens of the prompt.
C30_SavingWithinTokens ==
  (ret.op = "analyzePrompt" /\ ret.args[1] # "") =>
    /\ ret.val # Null
    /\ 0 <= ret.val.optimizedTokenEstimate
    /\ ret.val.optimizedTokenEstimate <= ret.val.tokens
    /\ ret.val.politeWords.totalTokensSaved <= ret.val.tokens

(***************************************************************************)
(* The badge of the background worker (SpecWorker).                        *)
(***************************************************************************)
\* C26 as claimed: the badge shows "!" for 5 seconds after every openPopup message
\* handled, also when the messages overlap, and is empty once the timers have run.
C26_BadgeShownFiveSeconds ==
  /\ (\E i \in 1..Len(worker.timers) : worker.timers[i] > 0) => worker.badge = "!"
  /\ worker.timers = <<>> => worker.badge = ""

(***************************************************************************)
(* The content script (SpecPage, SpecTooltips).                            *)
(***************************************************************************)
\* C23 as claimed: when the analysis an input event has set up runs (the pending
\* timer of an element goes), no input event has come to the element since the
\* timer was set: the text it analyses is the element's text as of its last input
\* event, also if that event left 50 characters or fewer.
C23_AnalysisOfLastInput ==
  [][\A element \in Elements :
       (page.typing[element] # <<>> /\ page'.typing[element] = <<>>) =>
         page.typing[element][1] = page.typed[element]]_vars

\* C24: at most one tooltip made by showTooltip is in the document, and
\* currentTooltip is that tooltip if there is one and null if there is none.
C24_OneTooltipAndCurrent ==
  /\ Cardinality(page.attached) <= 1
  /\ page.currentTooltip # 0 => page.attached = {page.currentTooltip}
  /\ page.currentTooltip = 0 => page.attached = {}

\* a second tooltip has taken the place of the first, whose timer is still pending,
\* while a paste timer and a typing timer wait
C24_Witness ==
  /\ page.tooltips = 2
  /\ page.attached = {2}
  /\ page.currentTooltip = 2
  /\ page.hiding = {1, 2}
  /\ page.pasted # <<>>
  /\ \E element \in Elements : page.typing[element] # <<>>

SavedAndKept ==
  LET kept == SelectSeq(popup.saved, LAMBDA p : p.id \notin popup.deleted)
  IN  [i \in 1..Len(kept) |-> kept[Len(kept) + 1 - i]]

\* C27 as claimed: once every call has resolved the stored library holds every
\* prompt saved and not deleted, the newest first, however the get and set steps
\* of the calls were served.
C27_NoSaveLost ==
  popup.requests = <<>> => popup.library = SavedAndKept

\* C28 as claimed: no two stored prompts have the same id (so that delete(id)
\* removes one prompt only).
C28_IdsDiffer ==
  \A i, j \in 1..Len(popup.library) :
    i # j => popup.library[i].id # popup.library[j].id

\* C29 as claimed: the stored history never holds more than 1000 entries; once the
\* trackQuery calls have resolved it holds the most recent entries made, in the
\* order they were made; and while settings.trackHistory is false no entry is made.
C29_HistoryBoundedAndRecent ==
  /\ Len(popup.history) <= MaxHistory
  /\ popup.requests = <<>> =>
       /\ Len(popup.history) = IF popup.created > MaxHistory THEN MaxHistory ELSE popup.created
       /\ \A i \in 1..Len(popup.history) :
            popup.history[i] = popup.created - Len(popup.history) + i
  /\ ~popup.trackHistory =>
       /\ popup.created = Len(popup.history)
       /\ \A i \in 1..Len(popup.requests) :
            popup.requests[i].kind = "set" => popup.requests[i].key # "history"

(***************************************************************************)
(* Comparisons (SpecFormat).                                               *)
(***************************************************************************)
\* C21 as claimed: formatWaterComparison counts one drop per millilitre: 1 mL is
\* reported as 1 drop and 1.5 mL as 1 or 2 drops, and every amount reported in
\* drops as its millilitres rounded.
C21_OneDropPerMillilitre ==
  (ret.op \in {"formatWaterComparison", "popup.formatWaterComparison"}) =>
    LET drops == ret.val.text \in {"drop of water", "drops of water"}
    IN  /\ ret.args[1] = One => drops /\ ret.val.value = One
        /\ ret.args[1] = R(3, 2) => drops /\ ret.val.value \in {RInt(1), RInt(2)}
        /\ drops => ret.val.value = RInt(RRound(ret.args[1]))

(***************************************************************************)
(* Calls between loads (SpecCalls).                                        *)
(***************************************************************************)
\* C22: no calculation entry point changes the model table or the infrastructure
\* table: every step but a loadData leaves both as they were, so after any calls
\* both are what the last loadData left.
C22_CalculationsLeaveTheTables ==
  [][ret'.op # "loadData" =>
       (MODEL_DATA' = MODEL_DATA /\ INFRASTRUCTURE' = INFRASTRUCTURE)]_vars

\* a comparison has been computed from loaded tables, after an earlier calculation
C22_Witness ==
  /\ ret.op = "compareModels"
  /\ ret.val # Null
  /\ prev.op = "calculateImpact"
  /\ loads.last = "true"
  /\ MODEL_DATA # Null
  /\ INFRASTRUCTURE # Null

\* C10: a calculateImpact call returns what an earlier call with the same arguments
\* returned, whatever calls were made between the two, if no loadData was.
C10_SameArgumentsSameResult ==
  (prev.op = "calculateImpact" /\ ret.op = "calculateImpact" /\ ret.args = prev.args) =>
    ret.val = prev.val

C10_Witness ==
  /\ prev.op = "calculateImpact"
  /\ prev.age = "later"
  /\ ret.op = "calculateImpact"
  /\ ret.args = prev.args
  /\ ret.val # Null
  /\ ret.val = prev.val

====
